---- MODULE Spec2Model ----
(***************************************************************************)
(* A state-machine model of the Uiua runtime (src/src/run.rs).              *)
(*                                                                         *)
(* The interpreter is the recursive procedure Uiua::exec_impl.  The model  *)
(* runs it in small steps: the Rust call stack of the interpreter is the   *)
(* explicit continuation stack ctl, one continuation per place where the   *)
(* code resumes after a nested self.exec(..) returns, and res is the       *)
(* UiuaResult being returned.  Every variable is a function over the       *)
(* interpreters (Uiua values) of the system; interpreter 0 is the one the  *)
(* host constructs, the others are the interpreters spawn builds for its   *)
(* child threads.  The model is of the builds for targets with threads     *)
(* (target_arch other than wasm32), with and without debug_assertions.     *)
(***************************************************************************)
EXTENDS Integers, Sequences, FiniteSets, TLC

\* Bounds of the model.
MaxHeight == 3
MaxN == 2
MaxChildren == 2
MaxTime == 2
MaxRuns == 2

\* interpreter 0 and the interpreters of the threads spawn creates
Interpreters == 0..MaxChildren

\* the interpreter the host constructs
MainInterpreter == 0

-----------------------------------------------------------------------------
(* Generic sequence helpers (Vec operations).                              *)

Reverse(s) == [i \in 1..Len(s) |-> s[Len(s) + 1 - i]]

\* vec[..size]  (Vec::truncate / the part split_off leaves behind)
Truncate(s, size) == SubSeq(s, 1, size)

\* vec[start..]  (what Vec::drain(start..) yields, in order)
DrainFrom(s, start) == SubSeq(s, start + 1, Len(s))

Last(s) == s[Len(s)]

\* usize::saturating_sub against 0
Max0(n) == IF n > 0 THEN n ELSE 0

Front(s) == SubSeq(s, 1, Len(s) - 1)

\* Option<T>: None is <<>>, Some(x) is <<x>>.
None == <<>>

Some(x) == <<x>>

-----------------------------------------------------------------------------
(* Values.  A Value is a tagged array; the model keeps its element type    *)
(* (type_id), whether it is a scalar, its rows, and its label.             *)

\* the type numbers ValidateType compares type_id() with
TypeNum == 0

TypeChar == 2

TypeBox == 3

Num(n) == [ty |-> TypeNum, scalar |-> TRUE, n |-> n, c |-> "", rows |-> <<>>, label |-> ""]

Chr(c) == [ty |-> TypeChar, scalar |-> TRUE, n |-> 0, c |-> c, rows |-> <<>>, label |-> ""]

\* Value::from(Boxed(v)): a box scalar holding v
BoxOf(v) == [ty |-> TypeBox, scalar |-> TRUE, n |-> 0, c |-> "", rows |-> <<v>>, label |-> ""]

ArrOf(ty, rows) == [ty |-> ty, scalar |-> FALSE, n |-> 0, c |-> "", rows |-> rows, label |-> ""]

\* Value::default(): the empty number array
DefaultValue == ArrOf(TypeNum, <<>>)

\* Array::<Boxed>::default(): the empty box array
EmptyBoxArray == ArrOf(TypeBox, <<>>)

type_id(v) == v.ty

row_count(v) == IF v.scalar THEN 1 ELSE Len(v.rows)

into_rows(v) == IF v.scalar THEN <<v>> ELSE v.rows

unboxed(v) == IF v.scalar /\ v.ty = 3 THEN v.rows[1] ELSE v

set_label(v, l) == [v EXCEPT !.label = l]

RECURSIVE Shape(_)
Shape(v) ==
    IF v.scalar THEN <<>>
    ELSE IF v.rows = <<>> THEN <<0>>
    ELSE <<Len(v.rows)>> \o Shape(v.rows[1])

\* Value::from_row_values succeeds when the rows agree in type and shape.
RowsAgree(values) ==
    \A i \in 1..Len(values) :
        /\ values[i].ty = values[1].ty
        /\ Shape(values[i]) = Shape(values[1])

from_row_values(values) ==
    IF values = <<>> THEN DefaultValue ELSE ArrOf(values[1].ty, values)

\* String::from -> Value: a string is an array of characters
Str(chars) == ArrOf(TypeChar, [i \in 1..Len(chars) |-> Chr(chars[i])])

RECURSIVE FlatFormat(_)
RECURSIVE FormatRows(_)
\* Value::format, as a sequence of characters
FlatFormat(v) ==
    IF v.scalar
    THEN IF v.ty = 0 THEN <<ToString(v.n)>>
         ELSE IF v.ty = 2 THEN <<v.c>>
         ELSE <<"#">> \o FlatFormat(v.rows[1])
    ELSE IF v.ty = 2 /\ \A i \in 1..Len(v.rows) : v.rows[i].scalar
         THEN [i \in 1..Len(v.rows) |-> v.rows[i].c]
         ELSE <<"[">> \o FormatRows(v.rows) \o <<"]">>

FormatRows(rows) ==
    IF rows = <<>> THEN <<>>
    ELSE IF Len(rows) = 1 THEN FlatFormat(rows[1])
    ELSE FlatFormat(rows[1]) \o <<" ">> \o FormatRows(Tail(rows))

-----------------------------------------------------------------------------
(* Signatures, functions and nodes (the IR).                               *)

Sig(a, o) == [args |-> a, outputs |-> o]

\* Function: (id, signature, index into asm.functions)
Function(id, sig, index) == [id |-> id, sig |-> sig, index |-> index]

NoFunction == Function("", Sig(0, 0), 0)

\* ArrayLen::Static(n)
Static(n) == [static |-> TRUE, len |-> n]

Push(v) == [k |-> "Push", val |-> v]

Run(nodes) == [k |-> "Run", nodes |-> nodes]

PushUnder(n, span) == [k |-> "PushUnder", n |-> n, span |-> span]

CopyToUnder(n, span) == [k |-> "CopyToUnder", n |-> n, span |-> span]

PopUnder(n, span) == [k |-> "PopUnder", n |-> n, span |-> span]

Unpack(count, unbox, span) == [k |-> "Unpack", count |-> count, unbox |-> unbox, span |-> span]

\* parts: a sequence of strings, each a sequence of characters
Format(parts, span) == [k |-> "Format", parts |-> parts, span |-> span]

Label(label, span) == [k |-> "Label", label |-> label, span |-> span]

RemoveLabel(span) == [k |-> "RemoveLabel", span |-> span]

ValidateType(index, name, type_num, span) ==
    [ k |-> "ValidateType", index |-> index, name |-> name, type_num |-> type_num,
      span |-> span ]

Array(len, inner, boxed, span) ==
    [k |-> "Array", len |-> len, inner |-> inner, boxed |-> boxed, span |-> span]

Call(f, span) == [k |-> "Call", f |-> f, span |-> span]

CallGlobal(index) == [k |-> "CallGlobal", index |-> index]

CallMacro(index, span) == [k |-> "CallMacro", index |-> index, span |-> span]

\* CustomInverse whose normal is Ok(sn), sn a SigNode [node, sig]
CustomInverse(sn, span) == [k |-> "CustomInverse", ok |-> TRUE, sn |-> sn, span |-> span]

\* CustomInverse whose normal is Err(e)
CustomInverseErr(e, span) == [k |-> "CustomInverse", ok |-> FALSE, e |-> e, span |-> span]

NoInline(inner) == [k |-> "NoInline", inner |-> inner]

TrackCaller(inner) == [k |-> "TrackCaller", inner |-> inner]

\* Node::Mod(prim, args, span) for a modifier whose run_mod hands its operand to
\* with_fill / with_unfill (with the fill value val) or to without_fill.
Mod(prim, val, inner, span) ==
    [k |-> "Mod", prim |-> prim, val |-> val, inner |-> inner, span |-> span]

\* Node::Mod(prim, args, span) for a modifier whose run_mod hands its operands to
\* without_fill_but(n, but, in_ctx) or without_unfill_but(n, but, in_ctx)
ModBut(prim, n, but, inner, span) ==
    [k |-> "ModBut", prim |-> prim, n |-> n, but |-> but, inner |-> inner, span |-> span]

SigNode(node, sig) == [node |-> node, sig |-> sig]

BindGlobal(index, span) == [k |-> "BindGlobal", index |-> index, span |-> span]

SetOutputComment(i, n) == [k |-> "SetOutputComment", i |-> i, n |-> n]

\* Node::Prim(prim, span) for the thread primitives wait, send, recv and try_recv
Prim(prim, span) == [k |-> "Prim", prim |-> prim, span |-> span]

\* Node::ImplPrim(ImplPrimitive::TestAssert, span)
TestAssert(span) == [k |-> "ImplPrim", prim |-> "TestAssert", span |-> span]

\* Node::Mod(Primitive::Spawn or Primitive::Pool, [sn], span): the modifier hands its
\* operand sn to spawn(sn.sig.args, pool, sn)
Spawn(pool, sn, span) == [k |-> "Spawn", pool |-> pool, sn |-> sn, span |-> span]

-----------------------------------------------------------------------------
(* The assembly under test: asm.functions, asm.bindings and the deferred   *)
(* constants of the runtime.  asm.spans[i] is modelled by its index i.     *)

\* a node that always fails: the pushed scalar has 1 row, not 2
FailNode == Run(<<Push(Num(1)), Unpack(2, FALSE, 30)>>)

FPush == Function("FPush", Sig(0, 1), 1)

FDrift == Function("FDrift", Sig(0, 1), 2)

FFail == Function("FFail", Sig(0, 2), 3)

FMid == Function("FMid", Sig(0, 2), 4)

FOuter == Function("FOuter", Sig(0, 2), 5)

FTrack == Function("FTrack", Sig(0, 2), 6)

FCallsTrack == Function("FCallsTrack", Sig(0, 2), 7)

FFill == Function("FFill", Sig(0, 1), 8)

FShrink == Function("FShrink", Sig(1, 1), 9)

FCallsMacro == Function("FCallsMacro", Sig(0, 1), 10)

FCallsGlobal == Function("FCallsGlobal", Sig(0, 1), 11)

FTrackThenFail == Function("FTrackThenFail", Sig(0, 3), 12)

FTrackOk == Function("FTrackOk", Sig(0, 1), 13)

FCallsTrackOk == Function("FCallsTrackOk", Sig(0, 3), 14)

\* asm.functions: the body of each function, by index
Functions ==
    << Push(Num(1)),
       Run(<<Push(Num(1)), Push(Num(2))>>),
       FailNode,
       Call(FFail, 31),
       Call(FMid, 32),
       TrackCaller(FailNode),
       Call(FTrack, 33),
       Mod("with_fill", Num(2), Push(Num(1)), 34),
       PushUnder(1, 35),
       CallMacro(3, 37),
       CallGlobal(3),
       Run(<<TrackCaller(Push(Num(1))), FailNode>>),
       TrackCaller(Push(Num(1))),
       Run(<<Call(FTrackOk, 38), FailNode>>) >>

ConstBinding(val) == [kind |-> "Const", val |-> val, f |-> NoFunction]

FuncBinding(f) == [kind |-> "Func", val |-> None, f |-> f]

OtherBinding(kind) == [kind |-> kind, val |-> None, f |-> NoFunction]

\* asm.bindings, by index (each entry is the binding's kind)
InitBindings ==
    [i \in 0..6 |->
        CASE i = 0 -> ConstBinding(Some(Num(2)))
          [] i = 1 -> ConstBinding(None)
          [] i = 2 -> ConstBinding(None)
          [] i = 3 -> FuncBinding(FPush)
          [] i = 4 -> FuncBinding(FFail)
          [] i = 5 -> OtherBinding("Module")
          [] OTHER -> ConstBinding(None)]

\* rt.unevaluated_constants: Const(None) bindings whose node is deferred
InitUnevaluated ==
    [i \in {1, 2} |->
        IF i = 1 THEN Array(Static(2), Run(<<Push(Num(1)), Push(Num(2))>>), FALSE, 36)
        ELSE FailNode]

-----------------------------------------------------------------------------
(* State.                                                                  *)

VARIABLES
    stack,                  \* rt.stack
    under_stack,            \* rt.under_stack
    call_stack,             \* rt.call_stack
    fill_stack,             \* rt.fill_stack
    unfill_stack,           \* rt.unfill_stack
    fill_boundary_stack,    \* rt.fill_boundary_stack
    array_depth,            \* rt.array_depth
    execution_limit,        \* rt.execution_limit
    interrupted,            \* rt.interrupted (None, or Some hook)
    recursion_limit,        \* rt.recursion_limit
    cli_arguments,          \* rt.cli_arguments
    cli_file_path,          \* rt.cli_file_path
    bindings,               \* asm.bindings
    unevaluated_constants,  \* rt.unevaluated_constants
    debug_assertions,       \* cfg(debug_assertions) of the build
    ctl,                    \* the interpreter's pending continuations, innermost first
    res,                    \* the UiuaResult being returned
    evals,                  \* history: how often each deferred constant's node was executed
    execution_start,        \* rt.execution_start
    now,                    \* the backend's clock, backend.now()
    hook,                   \* what the interrupt hook answers when it is called
    allow_thread_spawning,  \* backend.allow_thread_spawning()
    compiler,               \* the Compiler: its scopes, next_global and what it added to asm
    time_instrs,            \* rt.time_instrs
    output_comments,        \* rt.output_comments
    reports,                \* rt.reports
    thread,                 \* rt.thread: parent channel, children, next_child_id
    spawned,                \* the interpreters spawn has built so far
    channel,                \* per child: the queues to and from its parent and their open ends
    result,                 \* per child: the channel on which its thread sends its result
    sent,                   \* history: the values sent and received on each channel, ids given
    test_results,           \* rt.test_results
    runs                    \* history: how many times the host has called run_asm

vars ==
    << stack, under_stack, call_stack, fill_stack, unfill_stack, fill_boundary_stack,
       array_depth, execution_limit, interrupted, recursion_limit, cli_arguments,
       cli_file_path, bindings,
       unevaluated_constants, debug_assertions, ctl, res, evals, execution_start, now,
       hook, allow_thread_spawning, compiler, time_instrs, output_comments, reports, thread, spawned,
       channel, result, sent, test_results, runs >>

\* StackFrame
StackFrame(sig, id, call_span) ==
    [sig |-> sig, id |-> id, track_caller |-> FALSE, call_span |-> call_span, spans |-> <<>>]

\* StackFrame { id: Some(FunctionId::Main), ..Default::default() }
MainFrame == StackFrame(Sig(0, 0), Some("Main"), 0)

DebugRecursionLimit == 20

ReleaseRecursionLimit == 100

\* UiuaResult: Ok(()) or Err(UiuaError)
Ok == [kind |-> "Ok", message |-> "", span |-> 0, trace |-> <<>>, caller |-> None, multi |-> <<>>]

\* no exec has been called yet
NotRun == [kind |-> "NotRun", message |-> "", span |-> 0, trace |-> <<>>, caller |-> None, multi |-> <<>>]

\* a panic unwinding the interpreter
Panic(message) == [kind |-> "Panic", message |-> message, span |-> 0, trace |-> <<>>, caller |-> None, multi |-> <<>>]

RunError(span, message) ==
    [kind |-> "Run", message |-> message, span |-> span, trace |-> <<>>, caller |-> None, multi |-> <<>>]

TimeoutError(span) ==
    [kind |-> "Timeout", message |-> "", span |-> span, trace |-> <<>>, caller |-> None, multi |-> <<>>]

InterruptedError ==
    [kind |-> "Interrupted", message |-> "", span |-> 0, trace |-> <<>>, caller |-> None, multi |-> <<>>]

IsErr(r) == r.kind \in {"Run", "Timeout", "Interrupted"}

\* TraceFrame
TraceFrame(id, span) == [id |-> id, span |-> span]

\* UiuaError::track_caller: the span becomes the error's caller override
track_caller(err, span) == [err EXCEPT !.caller = Some(span)]

span_index(t) ==
    LET frame == Last(call_stack[t])
    IN  IF frame.spans # <<>> THEN Last(frame.spans).span ELSE frame.call_span

error(t, message) == RunError(span_index(t), message)

\* with_prim_span: entering and leaving the span of a node
push_span(cs, span, prim) ==
    [cs EXCEPT ![Len(cs)].spans = Append(@, [span |-> span, prim |-> prim])]

\* a with_prim_span that leaves its span behind
pop_span_Keeps(cs) == cs

pop_span(cs) == [cs EXCEPT ![Len(cs)].spans = Front(@)]

last_fill(t) == IF fill_stack[t] = <<>> THEN None ELSE Some(Last(fill_stack[t]))

last_unfill(t) == IF unfill_stack[t] = <<>> THEN None ELSE Some(Last(unfill_stack[t]))

\* value_fill with the boundary compared the wrong way: a boundary set at the current
\* height of the fill stack masks nothing
value_fill_StrictBoundary(t) ==
    IF /\ fill_boundary_stack[t] # <<>>
       /\ Last(fill_boundary_stack[t])[1] > Len(fill_stack[t])
    THEN None
    ELSE last_fill(t)

value_fill(t) ==
    IF /\ fill_boundary_stack[t] # <<>>
       /\ Last(fill_boundary_stack[t])[1] >= Len(fill_stack[t])
    THEN None
    ELSE last_fill(t)

value_unfill(t) ==
    IF /\ fill_boundary_stack[t] # <<>>
       /\ Last(fill_boundary_stack[t])[2] >= Len(unfill_stack[t])
    THEN None
    ELSE last_unfill(t)

\* a boundary that records empty fill stacks instead of the current heights
fill_boundary_Zero(t) == <<0, 0>>

\* without_fill: the boundary pushed before the body runs
fill_boundary(t) == <<Len(fill_stack[t]), Len(unfill_stack[t])>>

-----------------------------------------------------------------------------
(* Continuations: where exec_impl and its callers resume after a nested    *)
(* self.exec(..) has returned.                                             *)

ExecK(node) == [k |-> "exec", node |-> node]

\* exec_impl after its match: pre is what the interpreter held when the node began
TailK(node, pre) == [k |-> "tail", node |-> node, pre |-> pre]

RunK(nodes) == [k |-> "run", nodes |-> nodes]

SpanK == [k |-> "span"]

ConstK(index) == [k |-> "const", index |-> index]

ArrayK(len, boxed, start_height) ==
    [k |-> "array", len |-> len, boxed |-> boxed, start_height |-> start_height]

FrameK(start_height, sig, call_span) ==
    [k |-> "frame", start_height |-> start_height, sig |-> sig, call_span |-> call_span]

BoundaryK == [k |-> "boundary"]

FillK == [k |-> "fill"]

UnfillK == [k |-> "unfill"]

\* without_fill_but / without_unfill_but after but(self) has returned
ButK(inner) == [k |-> "but", inner |-> inner]

\* run_asm after catching_crash(exec(root)) has returned
RunAsmK(root) == [k |-> "run_asm", root |-> root]

\* the closure of a spawned thread after env.exec(f) has returned
ThreadK == [k |-> "thread"]

\* wait(id) at a handle: the handles still to wait for, the rows built so far, the shape
\* of the ids, and whether the wait is the implicit one of recv or try_recv
WaitK(handles, rows, shape, implicit) ==
    [k |-> "wait", handles |-> handles, rows |-> rows, shape |-> shape, implicit |-> implicit]

\* recv(id) at an id: the ids still to receive from, the values received so far, the
\* shape of the ids
RecvK(ids, values, shape) == [k |-> "recv", ids |-> ids, values |-> values, shape |-> shape]

RECURSIVE Unwound(_)
\* what is left of the continuations when a panic unwinds them: catch_unwind in
\* catching_crash stops it, and so does the end of the thread's closure
Unwound(ks) ==
    IF ks = <<>> THEN <<>>
    ELSE IF Head(ks).k \in {"run_asm", "thread"} THEN ks
    ELSE Unwound(Tail(ks))

Top(t) == Head(ctl[t])

Rest(t) == Tail(ctl[t])

AtExec(t, kind) ==
    /\ ctl[t] # <<>>
    /\ Top(t).k = "exec"
    /\ Top(t).node.k = kind

At(t, kind) ==
    /\ ctl[t] # <<>>
    /\ Top(t).k = kind

\* History kept with a node's continuation: the state the node started in.
Pre(t, node) ==
    [ stack |-> stack[t],
      under |-> under_stack[t],
      vf |-> value_fill(t),
      vuf |-> value_unfill(t),
      binding |-> IF node.k = "CallGlobal" /\ node.index \in DOMAIN bindings[t]
                  THEN bindings[t][node.index] ELSE OtherBinding(""),
      evaluated |-> IF node.k = "CallGlobal" /\ node.index \in DOMAIN evals[t]
                    THEN evals[t][node.index] ELSE 0,
      children |-> thread[t].children,
      frames |-> Len(call_stack[t]),
      spans |-> Len(Last(call_stack[t]).spans),
      depth |-> array_depth[t],
      fills |-> Len(fill_stack[t]),
      unfills |-> Len(unfill_stack[t]),
      boundaries |-> Len(fill_boundary_stack[t]) ]

-----------------------------------------------------------------------------
(* The stack effects of the nodes that run to completion inside one        *)
(* with_span.  Each yields the stacks afterwards and the error message, if *)
(* the closure returned Err.                                               *)

Done(st, us) == [err |-> None, stack |-> st, under |-> us]

Fail(st, us, message) == [err |-> Some(message), stack |-> st, under |-> us]

\* the message of the error require_height(n) returns, None when the height suffices
require_height(st, n) ==
    IF Len(st) < n
    THEN Some("Stack was empty when getting argument " \o ToString(Len(st) + 1))
    ELSE None

\* PushUnder that moves the values to the under stack without reversing them
PushUnderOp_NoReverse(st, us, n) ==
    IF require_height(st, n) # None THEN Fail(st, us, require_height(st, n)[1])
    ELSE LET start == Len(st) - n
         IN  Done(Truncate(st, start), us \o DrainFrom(st, start))

PushUnderOp(st, us, n) ==
    IF require_height(st, n) # None THEN Fail(st, us, require_height(st, n)[1])
    ELSE LET start == Len(st) - n
         IN  Done(Truncate(st, start), us \o Reverse(DrainFrom(st, start)))

\* CopyToUnder that drains the values from the stack as PushUnder does
CopyToUnderOp_Drains(st, us, n) ==
    IF require_height(st, n) # None THEN Fail(st, us, require_height(st, n)[1])
    ELSE Done(Truncate(st, Len(st) - n), us \o SubSeq(Reverse(st), 1, n))

CopyToUnderOp(st, us, n) ==
    IF require_height(st, n) # None THEN Fail(st, us, require_height(st, n)[1])
    ELSE Done(st, us \o SubSeq(Reverse(st), 1, n))

\* PopUnder that pushes the drained values without reversing them
PopUnderOp_NoReverse(st, us, n) ==
    IF Len(us) < n THEN Fail(st, us, "Stack was empty when getting context value")
    ELSE LET start == Len(us) - n
         IN  Done(st \o DrainFrom(us, start), Truncate(us, start))

PopUnderOp(st, us, n) ==
    IF Len(us) < n THEN Fail(st, us, "Stack was empty when getting context value")
    ELSE LET start == Len(us) - n
         IN  Done(st \o Reverse(DrainFrom(us, start)), Truncate(us, start))

\* Unpack that pushes the rows first to last, leaving the last row on top
UnpackRows_NoReverse(arr, unbox) ==
    LET rows == into_rows(arr)
    IN  IF unbox THEN [i \in 1..Len(rows) |-> unboxed(rows[i])] ELSE rows

\* the rows Unpack pushes, bottom of the stack first
UnpackRows(arr, unbox) ==
    LET rows == Reverse(into_rows(arr))
    IN  IF unbox THEN [i \in 1..Len(rows) |-> unboxed(rows[i])] ELSE rows

\* the message names the unpacking by its brackets, without the degree sign the code
\* puts before them
UnpackOp(st, us, count, unbox) ==
    IF st = <<>> THEN Fail(st, us, "Stack was empty when evaluating argument 1")
    ELSE LET arr == Last(st)
         IN  IF row_count(arr) # count
             THEN Fail(Front(st), us,
                       "This " \o (IF unbox THEN "{}" ELSE "[]") \o " expects an array with "
                           \o ToString(count) \o " rows, but the array has "
                           \o ToString(row_count(arr)))
             ELSE Done(Front(st) \o UnpackRows(arr, unbox), us)

RECURSIVE FormatLoop(_, _, _, _, _)
\* the loop of Node::Format from part i on; s is the string built so far
FormatLoop(st, us, parts, i, s) ==
    IF i > Len(parts) THEN Done(Append(st, Str(s)), us)
    ELSE IF i > 1
    THEN IF st = <<>>
         THEN Fail(st, us, "Stack was empty when evaluating format argument " \o ToString(i - 1))
         ELSE FormatLoop(Front(st), us, parts, i + 1, s \o FlatFormat(Last(st)) \o parts[i])
    ELSE FormatLoop(st, us, parts, i + 1, s \o parts[i])

FormatOp(st, us, parts) == FormatLoop(st, us, parts, 1, <<>>)

\* monadic_mut with val.set_label(if label.is_empty() { None } else { Some(label) })
LabelOp(st, us, label) ==
    IF st = <<>> THEN Fail(st, us, "Stack was empty when evaluating argument 1")
    ELSE Done(Append(Front(st), set_label(Last(st), label)), us)

RemoveLabelOp(st, us) ==
    IF st = <<>> THEN Fail(st, us, "Stack was empty when evaluating argument 1")
    ELSE Done(Append(Front(st), set_label(Last(st), "")), us)

RECURSIVE element_count(_)
RECURSIVE SumCounts(_)
element_count(v) == IF v.scalar THEN 1 ELSE SumCounts(v.rows)

SumCounts(rows) == IF rows = <<>> THEN 0 ELSE element_count(rows[1]) + SumCounts(Tail(rows))

\* Value::type_name / Value::type_name_plural
FoundName(v) ==
    LET one == element_count(v) = 1
    IN  CASE v.ty = 0 -> IF one THEN "number" ELSE "numbers"
          [] v.ty = 2 -> IF one THEN "character" ELSE "characters"
          [] v.ty = 3 -> IF one THEN "box" ELSE "boxes"
          [] OTHER -> IF one THEN "complex" ELSE "complexes"

\* the message names the field without the backquotes the code puts around it
ValidateTypeOp(st, us, index, name, type_num) ==
    IF st = <<>>
    THEN Fail(st, us, "Stack was empty when evaluating argument " \o ToString(index))
    ELSE LET val == Last(st)
         IN  IF type_id(val) # type_num
             THEN IF type_num \notin 0..3
                  THEN Fail(Front(st), us,
                            "Invalid type number " \o ToString(type_num)
                                \o ". This is a bug in the interpreter.")
                  ELSE Fail(Front(st), us,
                            "Field " \o name \o " should be "
                                \o (CASE type_num = 0 -> "numbers"
                                      [] type_num = 1 -> "complex numbers"
                                      [] type_num = 2 -> "characters"
                                      [] OTHER -> "boxes")
                                \o " but found " \o FoundName(val))
             ELSE Done(st, us)

\* make_array that collects the drained values without reversing them
ArrayValues_NoReverse(st, start, boxed) ==
    LET values == DrainFrom(st, start)
    IN  IF boxed THEN [i \in 1..Len(values) |-> BoxOf(values[i])] ELSE values

\* the values make_array collects: stack.drain(start..).rev(), boxed if asked
ArrayValues(st, start, boxed) ==
    LET values == Reverse(DrainFrom(st, start))
    IN  IF boxed THEN [i \in 1..Len(values) |-> BoxOf(values[i])] ELSE values

\* make_array that builds the array from the values without draining them
MakeArrayOp_KeepsValues(st, us, len, boxed, start_height) ==
    IF len.static /\ require_height(st, len.len) # None
    THEN Fail(st, us, require_height(st, len.len)[1])
    ELSE LET start == IF len.static THEN Len(st) - len.len ELSE start_height - len.len
             values == ArrayValues(st, start, boxed)
         IN  IF values = <<>> /\ boxed
             THEN Done(Append(st, EmptyBoxArray), us)
             ELSE IF ~RowsAgree(values)
             THEN Fail(st, us, "Cannot combine arrays of different shapes or types")
             ELSE Done(Append(st, from_row_values(values)), us)

\* make_array after its inner node has returned Ok
MakeArrayOp(st, us, len, boxed, start_height) ==
    IF len.static /\ require_height(st, len.len) # None
    THEN Fail(st, us, require_height(st, len.len)[1])
    ELSE LET start == IF len.static THEN Len(st) - len.len ELSE start_height - len.len
             values == ArrayValues(st, start, boxed)
         IN  IF values = <<>> /\ boxed
             THEN Done(Append(Truncate(st, start), EmptyBoxArray), us)
             ELSE IF ~RowsAgree(values)
             THEN Fail(Truncate(st, start), us, "Cannot combine arrays of different shapes or types")
             ELSE Done(Append(Truncate(st, start), from_row_values(values)), us)

-----------------------------------------------------------------------------
(* Actions: exec_impl's dispatch, one action per node variant.             *)

fills == <<fill_stack, unfill_stack, fill_boundary_stack>>

\* the settings of the runtime and of the build
limits ==
    << execution_limit, interrupted, recursion_limit, debug_assertions, execution_start,
       cli_arguments, cli_file_path >>

\* the backend and the interrupt hook's answer
world == <<now, hook, allow_thread_spawning, runs, compiler>>

outputs == <<time_instrs, output_comments, reports, test_results>>

threads == <<thread, spawned, channel, result, sent>>

config == <<limits, world, outputs, threads>>

asm == <<bindings, unevaluated_constants, evals>>

\* replace the continuation being run by the continuations ks
Continue(t, ks) == ctl' = [ctl EXCEPT ![t] = ks \o Rest(t)]

\* the continuation of the node being dispatched
NodeTail(t) == TailK(Top(t).node, Pre(t, Top(t).node))

\* A node whose closure runs to completion inside with_span(node.span, ..):
\* the span is pushed on the frame, the closure runs, the span is popped.
LeafStep(t, out) ==
    /\ stack' = [stack EXCEPT ![t] = out.stack]
    /\ under_stack' = [under_stack EXCEPT ![t] = out.under]
    /\ res' = [res EXCEPT ![t] =
                  IF out.err = None THEN Ok ELSE RunError(Top(t).node.span, out.err[1])]
    /\ Continue(t, <<NodeTail(t)>>)
    /\ UNCHANGED <<call_stack, fills, array_depth, config, asm>>

ExecPush(t) ==
    /\ AtExec(t, "Push")
    /\ stack' = [stack EXCEPT ![t] = Append(@, Top(t).node.val)]
    /\ res' = [res EXCEPT ![t] = Ok]
    /\ Continue(t, <<NodeTail(t)>>)
    /\ UNCHANGED <<under_stack, call_stack, fills, array_depth, config, asm>>

ExecRun(t) ==
    /\ AtExec(t, "Run")
    /\ res' = [res EXCEPT ![t] = Ok]
    /\ Continue(t, <<RunK(Top(t).node.nodes), NodeTail(t)>>)
    /\ UNCHANGED <<stack, under_stack, call_stack, fills, array_depth, config, asm>>

\* the loop of Node::Run: for node in nodes { self.exec(node)?; } Ok(())
RunStep(t) ==
    /\ At(t, "run")
    /\ IF IsErr(res[t]) \/ Top(t).nodes = <<>>
       THEN Continue(t, <<>>)
       ELSE Continue(t, <<ExecK(Head(Top(t).nodes)), RunK(Tail(Top(t).nodes))>>)
    /\ UNCHANGED <<stack, under_stack, call_stack, fills, array_depth, config, asm, res>>

ExecPushUnder(t) ==
    /\ AtExec(t, "PushUnder")
    /\ LeafStep(t, PushUnderOp(stack[t], under_stack[t], Top(t).node.n))

ExecCopyToUnder(t) ==
    /\ AtExec(t, "CopyToUnder")
    /\ LeafStep(t, CopyToUnderOp(stack[t], under_stack[t], Top(t).node.n))

ExecPopUnder(t) ==
    /\ AtExec(t, "PopUnder")
    /\ LeafStep(t, PopUnderOp(stack[t], under_stack[t], Top(t).node.n))

ExecUnpack(t) ==
    /\ AtExec(t, "Unpack")
    /\ LeafStep(t, UnpackOp(stack[t], under_stack[t], Top(t).node.count, Top(t).node.unbox))

ExecFormat(t) ==
    /\ AtExec(t, "Format")
    /\ LeafStep(t, FormatOp(stack[t], under_stack[t], Top(t).node.parts))

ExecLabel(t) ==
    /\ AtExec(t, "Label")
    /\ LeafStep(t, LabelOp(stack[t], under_stack[t], Top(t).node.label))

ExecRemoveLabel(t) ==
    /\ AtExec(t, "RemoveLabel")
    /\ LeafStep(t, RemoveLabelOp(stack[t], under_stack[t]))

ExecValidateType(t) ==
    /\ AtExec(t, "ValidateType")
    /\ LeafStep(t, ValidateTypeOp(stack[t], under_stack[t], Top(t).node.index,
                                  Top(t).node.name, Top(t).node.type_num))

\* Node::Array: with_span(span, |env| env.make_array(..)) up to self.exec(inner)
ExecArray(t) ==
    /\ AtExec(t, "Array")
    /\ call_stack' = [call_stack EXCEPT ![t] = push_span(@, Top(t).node.span, "")]
    /\ array_depth' = [array_depth EXCEPT ![t] = @ + 1]
    /\ Continue(t, << ExecK(Top(t).node.inner),
                      ArrayK(Top(t).node.len, Top(t).node.boxed, Len(stack[t])),
                      SpanK, NodeTail(t) >>)
    /\ UNCHANGED <<stack, under_stack, fills, config, asm, res>>

\* make_array from the return of self.exec(inner) on
ArrayAfter(t) ==
    /\ At(t, "array")
    /\ array_depth' = [array_depth EXCEPT ![t] = @ - 1]
    /\ LET out == MakeArrayOp(stack[t], under_stack[t], Top(t).len, Top(t).boxed,
                              Top(t).start_height)
       IN  IF IsErr(res[t])
           THEN UNCHANGED <<stack, res>>
           ELSE /\ stack' = [stack EXCEPT ![t] = out.stack]
                /\ res' = [res EXCEPT ![t] =
                              IF out.err = None THEN Ok ELSE error(t, out.err[1])]
    /\ Continue(t, <<>>)
    /\ UNCHANGED <<under_stack, call_stack, fills, config, asm>>

\* with_prim_span after f(self): the span is popped
SpanPop(t) ==
    /\ At(t, "span")
    /\ call_stack' = [call_stack EXCEPT ![t] = pop_span(@)]
    /\ Continue(t, <<>>)
    /\ UNCHANGED <<stack, under_stack, fills, array_depth, config, asm, res>>

\* call_with_span(f, call_span) up to the self.exec(node) of exec_with_frame_span;
\* cs is the call stack at the call, ks the continuations of the caller.
EnterCall(t, cs, f, call_span, ks) ==
    /\ fill_boundary_stack' = [fill_boundary_stack EXCEPT ![t] = Append(@, fill_boundary(t))]
    /\ call_stack' = [call_stack EXCEPT ![t] =
                         Append(cs, StackFrame(f.sig, Some(f.id), call_span))]
    /\ Continue(t, << ExecK(Functions[f.index]),
                      FrameK(Len(stack[t]), f.sig, call_span),
                      BoundaryK >> \o ks)
    /\ UNCHANGED <<stack, under_stack, fill_stack, unfill_stack, array_depth, config, asm, res>>

\* the node fails with self.error(message) before it changes anything
FailNow(t, message) ==
    /\ res' = [res EXCEPT ![t] = message]
    /\ Continue(t, <<NodeTail(t)>>)
    /\ UNCHANGED <<stack, under_stack, call_stack, fills, array_depth, config, asm>>

\* exec_impl returns err from inside its match (return Err(..), or ? on an Err):
\* nothing after the match runs
ReturnNow(t, err) ==
    /\ res' = [res EXCEPT ![t] = err]
    /\ Continue(t, <<>>)
    /\ UNCHANGED <<stack, under_stack, call_stack, fills, array_depth, config, asm>>

ExecCall(t) ==
    /\ AtExec(t, "Call")
    /\ EnterCall(t, call_stack[t], Top(t).node.f, Top(t).node.span, <<NodeTail(t)>>)

DriftMessage(height_diff, sig, sig_diff) ==
    "Function modified the stack by " \o ToString(height_diff)
        \o " values, but its signature of |" \o ToString(sig.args) \o "." \o ToString(sig.outputs)
        \o " implies a change of " \o ToString(sig_diff)

\* exec_with_frame_span that appends a trace frame for a track_caller frame and
\* overrides the caller otherwise
TraceError_Swapped(err, frame) ==
    IF ~frame.track_caller
    THEN track_caller(err, frame.call_span)
    ELSE [err EXCEPT !.trace = Append(@, TraceFrame(frame.id, frame.call_span))]

\* the error exec_with_frame_span returns when the body failed
TraceError(err, frame) ==
    IF frame.track_caller
    THEN track_caller(err, frame.call_span)
    ELSE [err EXCEPT !.trace = Append(@, TraceFrame(frame.id, frame.call_span))]

\* a height check that lets a body leave more values than its signature says
HeightMatchesSig_AtLeast(height, start_height, sig) ==
    height - start_height >= sig.outputs - sig.args

\* whether the body changed the stack height as the signature says
HeightMatchesSig(height, start_height, sig) ==
    height - start_height = sig.outputs - sig.args

\* exec_with_frame_span from the return of self.exec(node) on
FrameAfter(t) ==
    /\ At(t, "frame")
    /\ call_stack' = [call_stack EXCEPT ![t] = Front(@)]
    /\ LET frame == Last(call_stack[t])
           k == Top(t)
           message == DriftMessage(Len(stack[t]) - k.start_height, k.sig,
                                   k.sig.outputs - k.sig.args)
       IN  IF IsErr(res[t])
           THEN /\ res' = [res EXCEPT ![t] = TraceError(@, frame)]
                /\ Continue(t, <<>>)
           ELSE IF HeightMatchesSig(Len(stack[t]), k.start_height, k.sig)
           THEN /\ res' = [res EXCEPT ![t] = Ok]
                /\ Continue(t, <<>>)
           ELSE IF debug_assertions
           THEN \* panic!: the stack unwinds, no continuation runs before a catch_unwind
                /\ res' = [res EXCEPT ![t] = Panic(message)]
                /\ ctl' = [ctl EXCEPT ![t] = Unwound(Rest(t))]
           ELSE /\ res' = [res EXCEPT ![t] = RunError(k.call_span, message)]
                /\ Continue(t, <<>>)
    /\ UNCHANGED <<stack, under_stack, fills, array_depth, config, asm>>

\* without_fill after in_ctx(self)
BoundaryPop(t) ==
    /\ At(t, "boundary")
    /\ fill_boundary_stack' = [fill_boundary_stack EXCEPT ![t] = Front(@)]
    /\ Continue(t, <<>>)
    /\ UNCHANGED <<stack, under_stack, call_stack, fill_stack, unfill_stack, array_depth,
                   config, asm, res>>

\* a with_fill that leaves its value behind
pop_fill_Keeps(fs) == fs

\* with_fill / with_unfill: the pop after in_ctx(self)
pop_fill(fs) == Front(fs)

\* with_fill after in_ctx(self)
FillPop(t) ==
    /\ At(t, "fill")
    /\ fill_stack' = [fill_stack EXCEPT ![t] = pop_fill(@)]
    /\ Continue(t, <<>>)
    /\ UNCHANGED <<stack, under_stack, call_stack, unfill_stack, fill_boundary_stack,
                   array_depth, config, asm, res>>

\* with_unfill after in_ctx(self)
UnfillPop(t) ==
    /\ At(t, "unfill")
    /\ unfill_stack' = [unfill_stack EXCEPT ![t] = pop_fill(@)]
    /\ Continue(t, <<>>)
    /\ UNCHANGED <<stack, under_stack, call_stack, fill_stack, fill_boundary_stack,
                   array_depth, config, asm, res>>


\* the message of the error respect_recursion_limit returns
RecursionLimitMessage(t) ==
    "Recursion limit reached. You can try setting UIUA_RECURSION_LIMIT to a higher value. "
        \o "The current limit is " \o ToString(recursion_limit[t]) \o "."

\* whether respect_recursion_limit returns Err
RecursionLimitReached(t) == Len(call_stack[t]) > recursion_limit[t]

\* a remove that leaves the entry in the map
RemoveKey_Keeps(m, index) == m

\* HashMap::remove: rt.unevaluated_constants.remove(&index), children.remove(&handle)
RemoveKey(m, index) == [j \in DOMAIN m \ {index} |-> m[j]]

ExecCallGlobal(t) ==
    /\ AtExec(t, "CallGlobal")
    /\ LET index == Top(t).node.index
           binding == bindings[t][index]
       IN  IF index \notin DOMAIN bindings[t]
           THEN ReturnNow(t, error(t, "Called out-of-bounds binding. This is a bug in the interpreter."))
           ELSE IF binding.kind = "Const" /\ binding.val # None
           THEN /\ stack' = [stack EXCEPT ![t] = Append(@, binding.val[1])]
                /\ res' = [res EXCEPT ![t] = Ok]
                /\ Continue(t, <<NodeTail(t)>>)
                /\ UNCHANGED <<under_stack, call_stack, fills, array_depth, config, asm>>
           ELSE IF binding.kind = "Const"
           THEN IF index \in DOMAIN unevaluated_constants[t]
                THEN /\ unevaluated_constants' =
                            [unevaluated_constants EXCEPT ![t] = RemoveKey(@, index)]
                     /\ evals' = [evals EXCEPT ![t][index] = @ + 1]
                     /\ Continue(t, << ExecK(unevaluated_constants[t][index]),
                                       ConstK(index), NodeTail(t) >>)
                     /\ UNCHANGED <<stack, under_stack, call_stack, fills, array_depth,
                                    config, bindings, res>>
                ELSE FailNow(t, error(t, "Called unbound constant. This is a bug in the interpreter."))
           ELSE IF binding.kind = "Func"
           THEN IF RecursionLimitReached(t)
                THEN FailNow(t, error(t, RecursionLimitMessage(t)))
                ELSE EnterCall(t, call_stack[t], binding.f, span_index(t), <<NodeTail(t)>>)
           ELSE IF binding.kind \in {"Import", "Module"}
           THEN FailNow(t, error(t, "Called module global. This is a bug in the interpreter."))
           ELSE IF binding.kind = "IndexMacro"
           THEN FailNow(t, error(t, "Called index macro global. This is a bug in the interpreter."))
           ELSE FailNow(t, error(t, "Called code macro global. This is a bug in the interpreter."))

\* asm.bindings.make_mut()[index].kind = BindingKind::Const(Some(val))
Memoize(bs, index, val) == [bs EXCEPT ![index] = ConstBinding(Some(val))]

\* the closure of the Const(None) branch from the return of self.exec(node) on
ConstAfter(t) ==
    /\ At(t, "const")
    /\ IF IsErr(res[t])
       THEN UNCHANGED <<bindings, res>>
       ELSE IF stack[t] = <<>>
       THEN /\ res' = [res EXCEPT ![t] = error(t, "Stack was empty when evaluating constant")]
            /\ UNCHANGED bindings
       ELSE /\ bindings' = [bindings EXCEPT ![t] = Memoize(@, Top(t).index, Last(stack[t]))]
            /\ res' = [res EXCEPT ![t] = Ok]
    /\ Continue(t, <<>>)
    /\ UNCHANGED <<stack, under_stack, call_stack, fills, array_depth, config,
                   unevaluated_constants, evals>>

\* Assembly::bind_const(local, Some(value), span, None): binding index becomes the
\* constant value
bind_const(bs, index, value) ==
    [i \in DOMAIN bs \cup {index} |-> IF i = index THEN ConstBinding(Some(value)) ELSE bs[i]]

\* Node::BindGlobal
ExecBindGlobal(t) ==
    /\ AtExec(t, "BindGlobal")
    /\ IF stack[t] = <<>>
       THEN ReturnNow(t, error(t, "No values on the stack for binding. This is a bug in the interpreter"))
       ELSE /\ stack' = [stack EXCEPT ![t] = Front(@)]
            /\ bindings' = [bindings EXCEPT ![t] = bind_const(@, Top(t).node.index, Last(stack[t]))]
            /\ res' = [res EXCEPT ![t] = Ok]
            /\ Continue(t, <<NodeTail(t)>>)
            /\ UNCHANGED <<under_stack, call_stack, fills, array_depth, config,
                           unevaluated_constants, evals>>

ExecCallMacro(t) ==
    /\ AtExec(t, "CallMacro")
    /\ LET node == Top(t).node
       IN  IF node.index \notin DOMAIN bindings[t]
           THEN FailNow(t, RunError(node.span,
                    "Called out-of-bounds binding. This is a bug in the interpreter."))
           ELSE IF bindings[t][node.index].kind # "Func"
           THEN FailNow(t, RunError(node.span,
                    "Recursive macro is not bound as a function. This is a bug in the interpreter."))
           ELSE EnterCall(t, push_span(call_stack[t], node.span, ""),
                          bindings[t][node.index].f, node.span, <<SpanK, NodeTail(t)>>)

\* Node::CustomInverse: exec_with_span(normal, span), or the embedded error
ExecCustomInverse(t) ==
    /\ AtExec(t, "CustomInverse")
    /\ LET node == Top(t).node
       IN  IF node.ok
           THEN /\ call_stack' = [call_stack EXCEPT ![t] =
                                     Append(@, StackFrame(node.sn.sig, None, node.span))]
                /\ Continue(t, << ExecK(node.sn.node),
                                  FrameK(Len(stack[t]), node.sn.sig, node.span),
                                  NodeTail(t) >>)
                /\ UNCHANGED <<stack, under_stack, fills, array_depth, config, asm, res>>
           ELSE FailNow(t, RunError(node.span, node.e))

ExecNoInline(t) ==
    /\ AtExec(t, "NoInline")
    /\ Continue(t, <<ExecK(Top(t).node.inner), NodeTail(t)>>)
    /\ UNCHANGED <<stack, under_stack, call_stack, fills, array_depth, config, asm, res>>

\* a TrackCaller that marks every frame of the call stack
set_track_caller_InEveryFrame(frames) ==
    [i \in 1..Len(frames) |-> [frames[i] EXCEPT !.track_caller = TRUE]]

\* self.rt.call_stack.last_mut().unwrap().track_caller = true
set_track_caller(frames) == [frames EXCEPT ![Len(frames)].track_caller = TRUE]

ExecTrackCaller(t) ==
    /\ AtExec(t, "TrackCaller")
    /\ call_stack' = [call_stack EXCEPT ![t] = set_track_caller(@)]
    /\ Continue(t, <<ExecK(Top(t).node.inner), NodeTail(t)>>)
    /\ UNCHANGED <<stack, under_stack, fills, array_depth, config, asm, res>>

\* Node::Mod: with_prim_span(span, Some(prim), ..) around with_fill, with_unfill or
\* without_fill, each up to its in_ctx(self)
ExecMod(t) ==
    /\ AtExec(t, "Mod")
    /\ LET node == Top(t).node
       IN  /\ call_stack' = [call_stack EXCEPT ![t] = push_span(@, node.span, node.prim)]
           /\ fill_stack' = [fill_stack EXCEPT ![t] =
                                IF node.prim = "with_fill" THEN Append(@, node.val) ELSE @]
           /\ unfill_stack' = [unfill_stack EXCEPT ![t] =
                                  IF node.prim = "with_unfill" THEN Append(@, node.val) ELSE @]
           /\ fill_boundary_stack' = [fill_boundary_stack EXCEPT ![t] =
                                         IF node.prim = "without_fill"
                                         THEN Append(@, fill_boundary(t)) ELSE @]
           /\ Continue(t, << ExecK(node.inner),
                             CASE node.prim = "with_fill" -> FillK
                               [] node.prim = "with_unfill" -> UnfillK
                               [] OTHER -> BoundaryK,
                             SpanK, NodeTail(t) >>)
    /\ UNCHANGED <<stack, under_stack, array_depth, config, asm, res>>

\* without_fill_but: fills = fill_stack[len.max(n) - n..], the last n fills (all of
\* them when there are fewer)
last_fills(fs, n) ==
    IF Len(fs) >= n THEN SubSeq(fs, Len(fs) - n + 1, Len(fs)) ELSE fs

\* without_fill_but: the stack after n - fills.len() default values and then the
\* fills, last first, have been pushed
push_fills(stk, fs, n) ==
    LET found == last_fills(fs, n)
    IN  stk \o [i \in 1..(n - Len(found)) |-> DefaultValue] \o Reverse(found)

\* Node::Mod: with_prim_span(span, Some(prim), ..) around without_fill_but or
\* without_unfill_but, up to its but(self)
ExecModBut(t) ==
    /\ AtExec(t, "ModBut")
    /\ LET node == Top(t).node
       IN  /\ call_stack' = [call_stack EXCEPT ![t] = push_span(@, node.span, node.prim)]
           /\ stack' = [stack EXCEPT ![t] =
                           push_fills(@, IF node.prim = "without_fill_but"
                                         THEN fill_stack[t] ELSE unfill_stack[t], node.n)]
           /\ Continue(t, <<ExecK(node.but), ButK(node.inner), SpanK, NodeTail(t)>>)
    /\ UNCHANGED <<under_stack, fills, array_depth, config, asm, res>>

\* without_fill_but / without_unfill_but from but(self)? on: an Err of but returns at
\* once, otherwise self.without_fill(|env| in_ctx(env)) up to its in_ctx(self)
ButAfter(t) ==
    /\ At(t, "but")
    /\ IF IsErr(res[t])
       THEN /\ Continue(t, <<>>)
            /\ UNCHANGED fills
       ELSE /\ fill_boundary_stack' = [fill_boundary_stack EXCEPT ![t] =
                                          Append(@, fill_boundary(t))]
            /\ Continue(t, <<ExecK(Top(t).inner), BoundaryK>>)
            /\ UNCHANGED <<fill_stack, unfill_stack>>
    /\ UNCHANGED <<stack, under_stack, call_stack, array_depth, config, asm, res>>

\* respect_execution_limit: the error it returns, None when it returns Ok
respect_execution_limit(t) ==
    IF execution_limit[t] # None /\ now - execution_start[t] > execution_limit[t][1]
    THEN Some(TimeoutError(span_index(t)))
    ELSE IF interrupted[t] # None /\ hook
    THEN Some(InterruptedError)
    ELSE None

\* exec_impl after its match: self.respect_execution_limit()?; res
ExecTail(t) ==
    /\ At(t, "tail")
    /\ res' = [res EXCEPT ![t] =
                  IF respect_execution_limit(t) # None
                  THEN respect_execution_limit(t)[1] ELSE @]
    /\ Continue(t, <<>>)
    /\ UNCHANGED <<stack, under_stack, call_stack, fills, array_depth, config, asm>>

\* the backend's clock advances
Tick ==
    /\ now < MaxTime
    /\ now' = now + 1
    /\ UNCHANGED <<stack, under_stack, call_stack, fills, array_depth, limits, hook,
                   allow_thread_spawning, compiler, runs, outputs, threads, asm, ctl, res>>

\* the host makes the interrupt hook answer true from now on, or false again
HookFlip ==
    /\ hook' = ~hook
    /\ UNCHANGED <<stack, under_stack, call_stack, fills, array_depth, limits, now,
                   allow_thread_spawning, compiler, runs, outputs, threads, asm, ctl, res>>

-----------------------------------------------------------------------------
(* The host: the stacks it hands over and the nodes it executes.           *)

SeqsUpTo(S, n) == UNION {[1..k -> S] : k \in 0..n}

Counts == 0..MaxN

\* values the host pushes before it calls exec
StackValues == {Num(1), Chr("a"), ArrOf(0, <<Num(1), Num(2)>>)}

InitStacks == SeqsUpTo(StackValues, MaxHeight)

PushValues == {Num(1), Num(2)}

Pushes(vals) == Run([i \in 1..Len(vals) |-> Push(vals[i])])

FormatParts(n) == [i \in 1..n |-> IF i = 1 THEN <<"x", "=">> ELSE <<"!">>]

LeafPrograms ==
    {Push(Num(2)), Label("l", 6), Label("", 6), RemoveLabel(7)}
        \cup {PushUnder(n, 1) : n \in Counts}
        \cup {CopyToUnder(n, 2) : n \in Counts}
        \cup {PopUnder(n, 3) : n \in Counts}
        \cup {Unpack(n, u, 4) : n \in Counts, u \in BOOLEAN}
        \cup {Format(FormatParts(n), 5) : n \in Counts}
        \cup {ValidateType(1, "F", ty, 8) : ty \in {0, 2, 3, 4}}

UnderPrograms ==
    {Run(<<PushUnder(j, 1), PopUnder(k, 3)>>) : j \in Counts, k \in Counts}
        \cup {Run(<<CopyToUnder(j, 2), PopUnder(k, 3)>>) : j \in Counts, k \in Counts}
        \cup {Run(<<PushUnder(1, 1), Run(<<PushUnder(k, 1), PopUnder(k, 3)>>)>>) : k \in Counts}
        \cup {Run(<<PushUnder(1, 1), Run(<<CopyToUnder(k, 2), PopUnder(k, 3)>>)>>) : k \in Counts}

ArrayPrograms ==
    {Array(Static(n), Run(<<>>), b, 9) : n \in Counts, b \in BOOLEAN}
        \cup {Array(Static(Len(vals)), Pushes(vals), b, 9) :
                 vals \in SeqsUpTo(PushValues, MaxN), b \in BOOLEAN}
        \cup {Array(Static(n), Pushes(<<Num(1)>>), FALSE, 9) : n \in Counts}
        \cup {Array(Static(2), Pushes(<<Num(1), Chr("a")>>), FALSE, 9)}
        \cup {Run(<<Array(Static(n), Run(<<>>), b, 9), Unpack(n, b, 4)>>) :
                 n \in Counts, b \in BOOLEAN}

AllFunctions ==
    { FPush, FDrift, FFail, FMid, FOuter, FTrack, FCallsTrack, FFill, FShrink,
      FTrackThenFail, FCallsTrackOk }

CallPrograms ==
    {Call(f, 10) : f \in AllFunctions}
        \cup {CallGlobal(i) : i \in 0..7}
        \cup {CallMacro(i, 11) : i \in {0, 3, 4, 7}}
        \cup {Run(<<CallGlobal(i), CallGlobal(i), CallGlobal(i)>>) : i \in {1, 2}}
        \cup { CustomInverse(SigNode(Push(Num(1)), Sig(0, 1)), 12),
               CustomInverse(SigNode(Push(Num(1)), Sig(0, 0)), 12),
               CustomInverse(SigNode(FailNode, Sig(0, 2)), 12),
               CustomInverse(SigNode(TrackCaller(FailNode), Sig(0, 2)), 12),
               CustomInverseErr("no inverse", 12),
               NoInline(Push(Num(1))),
               TrackCaller(FailNode),
               TrackCaller(Push(Num(1))) }

FillBodies ==
    { Call(FPush, 10), Call(FFill, 10), Call(FFail, 10), Call(FDrift, 10),
      CallGlobal(3), CallMacro(3, 11),
      Mod("without_fill", Num(0), Push(Num(1)), 14),
      Mod("without_fill", Num(0), Mod("with_fill", Num(1), Push(Num(1)), 15), 14),
      Mod("without_fill", Num(0), Mod("with_unfill", Num(1), Push(Num(1)), 15), 14) }

FillPrograms ==
    FillBodies
        \cup {Mod(p, Chr("f"), body, 13) : p \in {"with_fill", "with_unfill"}, body \in FillBodies}
        \cup {Mod("with_fill", Chr("f"), Mod("with_unfill", Chr("u"), body, 16), 13) :
                 body \in FillBodies}

Programs == LeafPrograms \cup UnderPrograms \cup ArrayPrograms \cup CallPrograms \cup FillPrograms

\* Uiua::exec(node), called by the host on an interpreter that has not run yet
HostExec(t, node) ==
    /\ t = MainInterpreter
    /\ ctl[t] = <<>>
    /\ res[t] = NotRun
    /\ ctl' = [ctl EXCEPT ![t] = <<ExecK(node)>>]
    /\ UNCHANGED <<stack, under_stack, call_stack, fills, array_depth, config, asm, res>>

\* the globals a host calls again after an exec has returned Err
RetryPrograms == {CallGlobal(i) : i \in DOMAIN InitUnevaluated}

\* Uiua::exec(node), called by the host on an interpreter whose last exec returned Err:
\* exec resets nothing, the runtime is as the failed exec left it
HostExecAgain(t, node) ==
    /\ t = MainInterpreter
    /\ ctl[t] = <<>>
    /\ IsErr(res[t])
    /\ ctl' = [ctl EXCEPT ![t] = <<ExecK(node)>>]
    /\ UNCHANGED <<stack, under_stack, call_stack, fills, array_depth, config, asm, res>>

\* a child that gets a copy of its parent's deferred constants
child_constants_Cloned(table) == table

\* unevaluated_constants: HashMap::new() in the Runtime spawn builds, whatever the
\* parent's table holds
child_constants(table) == <<>>

\* a thread whose first child gets the id 2
ThisThreadDefault_FromTwo == [parent |-> FALSE, children |-> <<>>, next_child_id |-> 2]

\* ThisThread::default()
ThisThreadDefault == [parent |-> FALSE, children |-> <<>>, next_child_id |-> 1]

\* the two unbounded channels spawn creates between a parent and a child, before the
\* child exists: nothing queued, no end alive
NoChannel == [down |-> <<>>, up |-> <<>>, parent_end |-> FALSE, child_end |-> FALSE]

\* the channel on which a child's thread sends the result of its exec
NoResult == [state |-> "none", res |-> NotRun, stack |-> <<>>]

\* history of one interpreter: what went into and came out of the channels to its parent,
\* the child ids its spawns pushed, those pushed since its runtime was last reset, the
\* ids its waits removed, and those removed and not handed out again since
NoHistory == [down_sent |-> <<>>, down_received |-> <<>>, up_sent |-> <<>>,
              up_received |-> <<>>, ids |-> <<>>, run_ids |-> <<>>, waited |-> {},
              gone |-> {}]

\* cli_arguments: Vec::new() and cli_file_path: PathBuf::new() of Runtime::default()
NoCli == [arguments |-> <<>>, file_path |-> ""]

\* a build whose two recursion limits are exchanged
DefaultRecursionLimit_Swapped(debug) ==
    IF debug THEN ReleaseRecursionLimit ELSE DebugRecursionLimit

\* the recursion limit of Runtime::default()
DefaultRecursionLimit(debug) == IF debug THEN DebugRecursionLimit ELSE ReleaseRecursionLimit

\* A freshly constructed interpreter whose builder methods (with_execution_limit,
\* with_interrupt_hook, with_recursion_limit, time_instrs, with_backend) have set
\* limit, hook_set, rlimit, ti and allow, with the values stk pushed by the host.
\* Scope::default() of the given kind: no variant counted, no data definition yet;
\* id tells the scopes apart: it counts the scopes made before this one
Scope(kind, name, id) ==
    [kind |-> kind, name |-> name, data_variants |-> 0, data_def |-> FALSE, id |-> id]

\* Compiler::default(): the file scope alone, next_global 0 and an empty assembly;
\* functions, defs and bindings are what the compiler has added to asm, errors what
\* add_error collected, and compiled the record of each data_def call that returned Ok
InitCompiler ==
    [ scope |-> Scope("File", "", 0), higher_scopes |-> <<>>, scopes_made |-> 1,
      next_global |-> 0, functions |-> <<>>, defs |-> 0, bindings |-> <<>>,
      errors |-> <<>>, compiled |-> <<>>, failed |-> None, spans |-> 0 ]

InitState(stk, debug, limit, hook_set, rlimit, allow, ti, cli) ==
    /\ stack = [t \in Interpreters |-> IF t = MainInterpreter THEN stk ELSE <<>>]
    /\ under_stack = [t \in Interpreters |-> <<>>]
    /\ call_stack = [t \in Interpreters |-> <<MainFrame>>]
    /\ fill_stack = [t \in Interpreters |-> <<>>]
    /\ unfill_stack = [t \in Interpreters |-> <<>>]
    /\ fill_boundary_stack = [t \in Interpreters |-> <<>>]
    /\ array_depth = [t \in Interpreters |-> 0]
    /\ execution_limit = [t \in Interpreters |-> limit]
    /\ interrupted = [t \in Interpreters |-> hook_set]
    /\ debug_assertions = debug
    /\ recursion_limit = [t \in Interpreters |-> rlimit]
    /\ cli_arguments = [t \in Interpreters |-> cli.arguments]
    /\ cli_file_path = [t \in Interpreters |-> cli.file_path]
    /\ bindings = [t \in Interpreters |-> InitBindings]
    /\ unevaluated_constants =
          [t \in Interpreters |-> IF t = MainInterpreter THEN InitUnevaluated ELSE <<>>]
    /\ ctl = [t \in Interpreters |-> <<>>]
    /\ res = [t \in Interpreters |-> NotRun]
    /\ evals = [t \in Interpreters |-> [i \in DOMAIN InitUnevaluated |-> 0]]
    /\ execution_start = [t \in Interpreters |-> 0]
    /\ now = 0
    /\ hook = FALSE
    /\ allow_thread_spawning = allow
    /\ compiler = InitCompiler
    /\ time_instrs = [t \in Interpreters |-> ti]
    /\ output_comments = [t \in Interpreters |-> <<>>]
    /\ reports = [t \in Interpreters |-> <<>>]
    /\ thread = [t \in Interpreters |-> ThisThreadDefault]
    /\ spawned = {}
    /\ channel = [t \in Interpreters |-> NoChannel]
    /\ result = [t \in Interpreters |-> NoResult]
    /\ sent = [t \in Interpreters |-> NoHistory]
    /\ test_results = [t \in Interpreters |-> <<>>]
    /\ runs = 0

\* Runtime::default() in either build, after the host has pushed some values
Init ==
    \E stk \in InitStacks, debug \in BOOLEAN :
        InitState(stk, debug, None, None, DefaultRecursionLimit(debug), TRUE, FALSE, NoCli)

Step(t) ==
    \/ \E node \in Programs : HostExec(t, node)
    \/ \E node \in RetryPrograms : HostExecAgain(t, node)
    \/ ExecPush(t)
    \/ ExecRun(t)
    \/ RunStep(t)
    \/ ExecPushUnder(t)
    \/ ExecCopyToUnder(t)
    \/ ExecPopUnder(t)
    \/ ExecUnpack(t)
    \/ ExecFormat(t)
    \/ ExecLabel(t)
    \/ ExecRemoveLabel(t)
    \/ ExecValidateType(t)
    \/ ExecArray(t)
    \/ ArrayAfter(t)
    \/ SpanPop(t)
    \/ ExecCall(t)
    \/ FrameAfter(t)
    \/ BoundaryPop(t)
    \/ FillPop(t)
    \/ UnfillPop(t)
    \/ ExecCallGlobal(t)
    \/ ConstAfter(t)
    \/ ExecCallMacro(t)
    \/ ExecCustomInverse(t)
    \/ ExecNoInline(t)
    \/ ExecTrackCaller(t)
    \/ ExecMod(t)
    \/ ExecTail(t)

Next == \E t \in Interpreters : Step(t)

Spec == Init /\ [][Next]_vars

-----------------------------------------------------------------------------
(* The limits: an interpreter built with a recursion limit, an execution   *)
(* limit and an interrupt hook, while the clock runs and the hook's answer *)
(* changes.                                                                *)

LimitStacks == {<<>>, <<Num(1)>>}

LimitPrograms ==
    { Call(FOuter, 10), Call(FCallsMacro, 10), Call(FCallsGlobal, 10),
      CallGlobal(3), CallMacro(3, 11), CallGlobal(9),
      BindGlobal(6, 17),
      Run(<<BindGlobal(6, 17), CallGlobal(6)>>),
      Run(<<Push(Num(1)), Push(Num(2))>>),
      Run(<<Call(FCallsGlobal, 10), Push(Num(2))>>),
      Run(<<Unpack(2, FALSE, 4), Push(Num(2))>>) }

\* with_recursion_limit(1 or 2), maybe_with_execution_limit, with_interrupt_hook
InitLimits ==
    \E stk \in LimitStacks, debug \in BOOLEAN, limit \in {None, Some(1)},
       hook_set \in {None, Some("hook")}, rlimit \in {1, 2} :
        InitState(stk, debug, limit, hook_set, rlimit, TRUE, FALSE, NoCli)

StepLimits(t) ==
    \/ \E node \in LimitPrograms : HostExec(t, node)
    \/ ExecPush(t)
    \/ ExecRun(t)
    \/ RunStep(t)
    \/ ExecUnpack(t)
    \/ SpanPop(t)
    \/ ExecCall(t)
    \/ FrameAfter(t)
    \/ BoundaryPop(t)
    \/ ExecCallGlobal(t)
    \/ ExecCallMacro(t)
    \/ ExecBindGlobal(t)
    \/ ExecTail(t)

NextLimits ==
    \/ \E t \in Interpreters : StepLimits(t)
    \/ Tick
    \/ HookFlip

SpecLimits == InitLimits /\ [][NextLimits]_vars

-----------------------------------------------------------------------------
(* run_asm: the host's entry point, with its catch of a crash, its summary *)
(* of the test assertions and its reset of the runtime after a failure.    *)

\* the interpreters registered as children of t
ChildSlots(t) == {thread[t].children[id] : id \in DOMAIN thread[t].children}

\* the entry of a HashMap, or the default of its value type
OutputEntry(m, i) == IF i \in DOMAIN m THEN m[i] ELSE <<>>

\* Node::SetOutputComment { i, n }
ExecSetOutputComment(t) ==
    /\ AtExec(t, "SetOutputComment")
    /\ LET node == Top(t).node
           st == stack[t]
           values == SubSeq(st, Max0(Len(st) - node.n) + 1, Len(st))
           old == OutputEntry(output_comments[t], node.i)
           new == IF old = <<>>
                  THEN [j \in 1..Len(values) |-> <<values[j]>>]
                  ELSE [j \in 1..Len(old) |->
                           IF j <= Len(values) THEN Append(old[j], values[j]) ELSE old[j]]
       IN  output_comments' = [output_comments EXCEPT ![t] =
               [x \in DOMAIN @ \cup {node.i} |-> IF x = node.i THEN new ELSE @[x]]]
    /\ res' = [res EXCEPT ![t] = Ok]
    /\ Continue(t, <<NodeTail(t)>>)
    /\ UNCHANGED <<stack, under_stack, call_stack, fills, array_depth, limits, world,
                   time_instrs, reports, test_results, threads, asm>>

\* the message of the error pop(arg) returns on an empty stack
PopMessage(arg) == "Stack was empty when evaluating argument " \o ToString(arg)

\* Node::ImplPrim(TestAssert, span): pops the message and the condition, and records
\* in rt.test_results whether the condition was 1
ExecTestAssert(t) ==
    /\ AtExec(t, "ImplPrim")
    /\ LET st == stack[t]
           span == Top(t).node.span
       IN  IF Len(st) < 2
           THEN /\ stack' = [stack EXCEPT ![t] = <<>>]
                /\ res' = [res EXCEPT ![t] = RunError(span, PopMessage(Len(st) + 1))]
                /\ UNCHANGED test_results
           ELSE /\ stack' = [stack EXCEPT ![t] = Truncate(st, Len(st) - 2)]
                /\ res' = [res EXCEPT ![t] = Ok]
                /\ test_results' = [test_results EXCEPT ![t] =
                       Append(@, IF st[Len(st) - 1] = Num(1)
                                 THEN Ok
                                 ELSE RunError(span, "Test assertion failed"))]
    /\ Continue(t, <<NodeTail(t)>>)
    /\ UNCHANGED <<under_stack, call_stack, fills, array_depth, limits, world,
                   time_instrs, output_comments, reports, threads, asm>>

\* asm.root.iter(): the nodes of the root
root_iter(root) == IF root.k = "Run" THEN root.nodes ELSE <<root>>

\* the number of test assertions among the nodes of the root
total_assert_tests(root) ==
    Cardinality({j \in DOMAIN root_iter(root) : root_iter(root)[j].k = "ImplPrim"})

RECURSIVE push_errors(_, _)
\* push_error over the drained test results: the first failure becomes the result of
\* an Ok run, the others are pushed on its multi slot
push_errors(r, results) ==
    IF results = <<>> THEN r
    ELSE LET te == Head(results)
         IN  push_errors(IF ~IsErr(te) THEN r
                         ELSE IF ~IsErr(r) THEN te
                         ELSE [r EXCEPT !.multi = Append(@, te)],
                         Tail(results))

\* Report::tests(successes, failures, not_run)
TestsReport(successes, failures, not_run) ==
    [successes |-> successes, failures |-> failures, not_run |-> not_run]

\* the error catching_crash makes of a panic
CrashError(t) == error(t, "The interpreter has crashed!")

\* a run_asm that resets the runtime whatever the result
is_err_Always(r) == TRUE

\* res.is_err()
is_err(r) == IsErr(r)

\* the host calls run_asm(asm) on its interpreter, for the first time with any of the
\* programs, later with one of the programs it runs again
HostRunAsm(t, root) ==
    /\ t = MainInterpreter
    /\ ctl[t] = <<>>
    /\ runs < MaxRuns
    /\ res[t].kind # "Panic"
    /\ runs' = runs + 1
    /\ bindings' = [bindings EXCEPT ![t] = InitBindings]
    /\ execution_start' = [execution_start EXCEPT ![t] = now]
    /\ ctl' = [ctl EXCEPT ![t] = <<ExecK(root), RunAsmK(root)>>]
    /\ UNCHANGED <<stack, under_stack, call_stack, fills, array_depth, execution_limit,
                   interrupted, recursion_limit, cli_arguments, cli_file_path,
                   debug_assertions, now, hook,
                   allow_thread_spawning, compiler, outputs, threads, unevaluated_constants, evals,
                   res>>

\* run_asm from the return of catching_crash on
RunAsmAfter(t) ==
    /\ At(t, "run_asm")
    /\ LET caught == IF res[t].kind = "Panic" THEN CrashError(t) ELSE res[t]
           total == total_assert_tests(Top(t).root)
           total_run == Len(test_results[t])
           failures == Cardinality({j \in DOMAIN test_results[t] : IsErr(test_results[t][j])})
           final == IF total > 0 THEN push_errors(caught, test_results[t]) ELSE caught
           rep == IF total > 0
                  THEN Append(reports[t],
                              TestsReport(total_run - failures, failures, Max0(total - total_run)))
                  ELSE reports[t]
       IN  /\ res' = [res EXCEPT ![t] = final]
           /\ reports' = [reports EXCEPT ![t] = rep]
           /\ IF is_err(final)
              THEN \* env.rt = Runtime { backend, execution_limit, time_instrs,
                   \* output_comments, reports, ..Runtime::default() }
                   /\ stack' = [stack EXCEPT ![t] = <<>>]
                   /\ under_stack' = [under_stack EXCEPT ![t] = <<>>]
                   /\ call_stack' = [call_stack EXCEPT ![t] = <<MainFrame>>]
                   /\ fill_stack' = [fill_stack EXCEPT ![t] = <<>>]
                   /\ unfill_stack' = [unfill_stack EXCEPT ![t] = <<>>]
                   /\ fill_boundary_stack' = [fill_boundary_stack EXCEPT ![t] = <<>>]
                   /\ array_depth' = [array_depth EXCEPT ![t] = 0]
                   /\ execution_start' = [execution_start EXCEPT ![t] = 0]
                   /\ recursion_limit' = [recursion_limit EXCEPT ![t] =
                                             DefaultRecursionLimit(debug_assertions)]
                   /\ interrupted' = [interrupted EXCEPT ![t] = None]
                   /\ cli_arguments' = [cli_arguments EXCEPT ![t] = NoCli.arguments]
                   /\ cli_file_path' = [cli_file_path EXCEPT ![t] = NoCli.file_path]
                   /\ unevaluated_constants' = [unevaluated_constants EXCEPT ![t] = <<>>]
                   /\ test_results' = [test_results EXCEPT ![t] = <<>>]
                   /\ thread' = [thread EXCEPT ![t] = ThisThreadDefault]
                   /\ sent' = [sent EXCEPT ![t].run_ids = <<>>]
                   \* the dropped children map closes the parent's ends of their channels
                   /\ channel' = [u \in Interpreters |->
                                     IF u \in ChildSlots(t)
                                     THEN [channel[u] EXCEPT !.parent_end = FALSE]
                                     ELSE channel[u]]
              ELSE /\ test_results' = [test_results EXCEPT ![t] =
                                          IF total > 0 THEN <<>> ELSE @]
                   /\ UNCHANGED <<stack, under_stack, call_stack, fills, array_depth,
                                  execution_start, recursion_limit, interrupted,
                                  cli_arguments, cli_file_path,
                                  unevaluated_constants, thread, channel, sent>>
    /\ Continue(t, <<>>)
    /\ UNCHANGED <<execution_limit, debug_assertions, world, time_instrs, output_comments,
                   spawned, result, bindings, evals>>

-----------------------------------------------------------------------------
(* The thread subsystem: spawn, the life of a spawned thread, wait, send,  *)
(* recv and try_recv.  A channel of crossbeam_channel::unbounded() is a    *)
(* queue; a recv on it blocks while the queue is empty and a sender lives, *)
(* and fails once the queue is empty and every sender is dropped; a send   *)
(* fails once every receiver is dropped.  channel[u] holds the two queues  *)
(* between child u and its parent: down (parent to child) and up (child to *)
(* parent); parent_end says that the parent still holds its Thread entry   *)
(* for u, child_end that u's interpreter is alive.                         *)

\* the interpreters spawn has not used yet
FreeSlots == (Interpreters \ {MainInterpreter}) \ spawned

\* the interpreter the next spawn builds
NextSlot == CHOOSE u \in FreeSlots : \A v \in FreeSlots : u <= v

\* a counter of child ids that stands still
next_id_Same(id) == id

\* self.rt.thread.next_child_id += 1
next_id(id) == id + 1

\* children.insert(id, ..)
InsertKey(m, id, u) == [j \in DOMAIN m \cup {id} |-> IF j = id THEN u ELSE m[j]]

\* a child that gets the captured values top first
spawn_stack_Reversed(st, capture_count) == Reverse(DrainFrom(st, Len(st) - capture_count))

\* the stack of the child: self.rt.stack.drain(len - capture_count..).collect()
spawn_stack(st, capture_count) == DrainFrom(st, Len(st) - capture_count)

\* spawn(capture_count, pool, f), inside the with_prim_span of its modifier.  started
\* is whether std::thread::Builder::spawn could start a thread; rayon::spawn always can.
ExecSpawn(t) ==
    /\ AtExec(t, "Spawn")
    /\ LET node == Top(t).node
           capture_count == node.sn.sig.args
           st == stack[t]
           kept == Truncate(st, Max0(Len(st) - capture_count))
       IN  IF ~allow_thread_spawning
           THEN FailNow(t, RunError(node.span,
                               "Thread spawning is not allowed in this environment"))
           ELSE IF Len(st) < capture_count
           THEN FailNow(t, RunError(node.span,
                               "Expected at least " \o ToString(capture_count)
                                   \o " value(s) on the stack, but there are "
                                   \o ToString(Len(st))))
           ELSE \E started \in BOOLEAN :
                /\ node.pool => started
                /\ IF ~started
                   THEN \* the captured values went into the child that is dropped
                        /\ stack' = [stack EXCEPT ![t] = kept]
                        /\ res' = [res EXCEPT ![t] =
                                      RunError(node.span, "Error spawning thread")]
                        /\ Continue(t, <<NodeTail(t)>>)
                        /\ UNCHANGED <<under_stack, call_stack, fills, array_depth, config, asm>>
                   ELSE /\ FreeSlots # {}
                        /\ LET u == NextSlot
                               id == thread[t].next_child_id
                           IN  /\ stack' = [stack EXCEPT ![t] = Append(kept, Num(id)),
                                                         ![u] = spawn_stack(st, capture_count)]
                               /\ under_stack' = [under_stack EXCEPT ![u] = <<>>]
                               /\ fill_stack' = [fill_stack EXCEPT ![u] = <<>>]
                               /\ fill_boundary_stack' = [fill_boundary_stack EXCEPT ![u] = <<>>]
                               /\ unfill_stack' = [unfill_stack EXCEPT ![u] = <<>>]
                               /\ call_stack' = [call_stack EXCEPT ![u] =
                                      <<Last(push_span(call_stack[t], node.span, "spawn"))>>]
                               /\ array_depth' = [array_depth EXCEPT ![u] = 0]
                               /\ time_instrs' = [time_instrs EXCEPT ![u] = time_instrs[t]]
                               /\ execution_limit' = [execution_limit EXCEPT ![u] = execution_limit[t]]
                               /\ execution_start' = [execution_start EXCEPT ![u] = execution_start[t]]
                               /\ recursion_limit' = [recursion_limit EXCEPT ![u] = recursion_limit[t]]
                               /\ interrupted' = [interrupted EXCEPT ![u] = interrupted[t]]
                               /\ cli_arguments' = [cli_arguments EXCEPT ![u] = cli_arguments[t]]
                               /\ cli_file_path' = [cli_file_path EXCEPT ![u] = cli_file_path[t]]
                               /\ output_comments' = [output_comments EXCEPT ![u] = <<>>]
                               /\ unevaluated_constants' =
                                      [unevaluated_constants EXCEPT
                                          ![u] = child_constants(unevaluated_constants[t])]
                               /\ test_results' = [test_results EXCEPT ![u] = <<>>]
                               /\ reports' = [reports EXCEPT ![u] = <<>>]
                               /\ bindings' = [bindings EXCEPT ![u] = bindings[t]]
                               /\ thread' = [thread EXCEPT
                                      ![u] = [ThisThreadDefault EXCEPT !.parent = TRUE],
                                      ![t] = [@ EXCEPT !.children = InsertKey(@, id, u),
                                                       !.next_child_id = next_id(id)]]
                               /\ channel' = [channel EXCEPT ![u] =
                                      [down |-> <<>>, up |-> <<>>,
                                       parent_end |-> TRUE, child_end |-> TRUE]]
                               /\ result' = [result EXCEPT ![u] = NoResult]
                               /\ spawned' = spawned \cup {u}
                               /\ sent' = [sent EXCEPT ![u] = NoHistory,
                                                       ![t].ids = Append(@, id),
                                                       ![t].run_ids = Append(@, id),
                                                       ![t].gone = @ \ {id}]
                               /\ ctl' = [ctl EXCEPT
                                      ![u] = <<ExecK(node.sn.node), ThreadK>>,
                                      ![t] = <<NodeTail(t)>> \o Rest(t)]
                               /\ res' = [res EXCEPT ![t] = Ok, ![u] = NotRun]
                               /\ UNCHANGED <<debug_assertions, world, evals>>

\* a thread that sends nothing when its exec returned an error
thread_result_ErrDropped(r, st) ==
    IF r.kind = "Ok" THEN [state |-> "sent", res |-> Ok, stack |-> st]
    ELSE [state |-> "dropped", res |-> NotRun, stack |-> <<>>]

\* what the thread's closure sends: env.exec(f).map(|_| env.take_stack()), and nothing
\* when exec panicked
thread_result(r, st) ==
    IF r.kind = "Panic" THEN [state |-> "dropped", res |-> NotRun, stack |-> <<>>]
    ELSE IF IsErr(r) THEN [state |-> "sent", res |-> r, stack |-> <<>>]
    ELSE [state |-> "sent", res |-> Ok, stack |-> st]

\* the end of a spawned thread's closure: send.send(env.exec(f).map(|_| env.take_stack()))
\* and the drop of env; a panic of exec drops send without a result
ThreadEnd(t) ==
    /\ At(t, "thread")
    /\ result' = [result EXCEPT ![t] = thread_result(res[t], stack[t])]
    /\ stack' = [stack EXCEPT ![t] = IF res[t].kind = "Ok" THEN <<>> ELSE @]
    /\ channel' = [u \in Interpreters |->
                      IF u = t THEN [channel[u] EXCEPT !.child_end = FALSE]
                      ELSE IF u \in ChildSlots(t) THEN [channel[u] EXCEPT !.parent_end = FALSE]
                      ELSE channel[u]]
    /\ Continue(t, <<>>)
    /\ UNCHANGED <<under_stack, call_stack, fills, array_depth, limits, world, outputs,
                   thread, spawned, sent, asm, res>>

\* Value::as_natural_array: the shape and the data of an array of natural numbers.
\* The ids of the model are scalars and lists.
as_natural_array(v) ==
    IF v.ty # TypeNum THEN [ok |-> FALSE, shape |-> <<>>, data |-> <<>>]
    ELSE IF v.scalar THEN [ok |-> v.n >= 0, shape |-> <<>>, data |-> <<v.n>>]
    ELSE [ ok |-> \A j \in DOMAIN v.rows : v.rows[j].scalar /\ v.rows[j].n >= 0,
           shape |-> <<Len(v.rows)>>,
           data |-> [j \in DOMAIN v.rows |-> v.rows[j].n] ]

\* the message of the error Value::from_row_values returns for rows that disagree
RowsMessage == "Cannot combine arrays of different shapes or types into one array"

\* a row that is an array of the stack's values even when there is one value
WaitRow_AlwaysArray(thread_stack) ==
    IF RowsAgree(thread_stack) THEN Some(from_row_values(thread_stack)) ELSE None

\* the row wait builds of a thread's final stack
WaitRow(thread_stack) ==
    IF Len(thread_stack) = 1 THEN Some(thread_stack[1])
    ELSE IF RowsAgree(thread_stack) THEN Some(from_row_values(thread_stack))
    ELSE None

\* the node's closure returns r with the stack st
PrimReturns(t, st, r) ==
    /\ stack' = [stack EXCEPT ![t] = st]
    /\ res' = [res EXCEPT ![t] = r]
    /\ Continue(t, <<NodeTail(t)>>)

\* the node's closure goes on with the continuation k, inside the node's span
PrimContinues(t, st, k) ==
    /\ stack' = [stack EXCEPT ![t] = st]
    /\ res' = [res EXCEPT ![t] = Ok]
    /\ call_stack' = [call_stack EXCEPT ![t] = push_span(@, Top(t).node.span, Top(t).node.prim)]
    /\ Continue(t, <<k, SpanK, NodeTail(t)>>)

\* an extend that appends the thread's stack top first
extend_Reversed(st, thread_stack) == st \o Reverse(thread_stack)

\* self.rt.stack.extend(thread_stack)
extend(st, thread_stack) == st \o thread_stack

\* Primitive::Wait: wait(pop(1)) up to the first handle
ExecWait(t) ==
    /\ AtExec(t, "Prim")
    /\ Top(t).node.prim = "wait"
    /\ LET st == stack[t]
           span == Top(t).node.span
           ids == as_natural_array(Last(st))
       IN  IF st = <<>>
           THEN PrimReturns(t, st, RunError(span, PopMessage(1))) /\ UNCHANGED call_stack
           ELSE IF ~ids.ok
           THEN /\ PrimReturns(t, Front(st),
                       RunError(span, "Thread id must be an array of natural numbers"))
                /\ UNCHANGED call_stack
           ELSE PrimContinues(t, Front(st), WaitK(ids.data, <<>>, ids.shape, FALSE))
    /\ UNCHANGED <<under_stack, fills, array_depth, config, asm>>

\* a recv that returns Ok when its wait has returned Ok
after_wait_Ok(t, implicit) == Ok

\* what a wait that returned Ok makes its caller return: Ok to the wait primitive;
\* in recv and try_recv, if let Err(e) = self.wait(id.into()) { e } else
\* { self.error("Thread channel closed") }
after_wait(t, implicit) == IF implicit THEN error(t, "Thread channel closed") ELSE Ok

\* wait(id) at its next handle: children.remove(&handle), the blocking recv of the
\* thread's result and what is made of it; after the last handle, the value pushed
WaitStep(t) ==
    /\ At(t, "wait")
    /\ LET k == Top(t)
           children == thread[t].children
       IN  IF k.handles = <<>>
           THEN /\ IF k.shape = <<>>
                   THEN /\ res' = [res EXCEPT ![t] = after_wait(t, k.implicit)]
                        /\ UNCHANGED stack
                   ELSE IF RowsAgree(k.rows)
                   THEN /\ stack' = [stack EXCEPT ![t] = Append(@, from_row_values(k.rows))]
                        /\ res' = [res EXCEPT ![t] = Ok]
                   ELSE /\ res' = [res EXCEPT ![t] = error(t, RowsMessage)]
                        /\ UNCHANGED stack
                /\ Continue(t, <<>>)
                /\ UNCHANGED <<thread, channel, result, sent>>
           ELSE IF Head(k.handles) \notin DOMAIN children
           THEN /\ res' = [res EXCEPT ![t] = error(t, "Invalid thread id")]
                /\ Continue(t, <<>>)
                /\ UNCHANGED <<stack, thread, channel, result, sent>>
           ELSE LET handle == Head(k.handles)
                    u == children[handle]
                    r == result[u]
                    row == WaitRow(r.stack)
                IN  /\ r.state \in {"sent", "dropped"}
                    /\ thread' = [thread EXCEPT ![t].children = RemoveKey(@, handle)]
                    /\ channel' = [channel EXCEPT ![u].parent_end = FALSE]
                    /\ result' = [result EXCEPT ![u].state = "taken"]
                    /\ sent' = [sent EXCEPT ![t].waited = @ \cup {handle},
                                            ![t].gone = @ \cup {handle}]
                    /\ IF r.state = "dropped"
                       THEN \* recv() returns Err and unwrap() panics
                            /\ res' = [res EXCEPT ![t] =
                                          Panic("called Result::unwrap() on an Err value")]
                            /\ ctl' = [ctl EXCEPT ![t] = Unwound(Rest(t))]
                            /\ UNCHANGED stack
                       ELSE IF IsErr(r.res)
                       THEN /\ res' = [res EXCEPT ![t] = r.res]
                            /\ Continue(t, <<>>)
                            /\ UNCHANGED stack
                       ELSE IF k.shape = <<>>
                       THEN /\ stack' = [stack EXCEPT ![t] = extend(@, r.stack)]
                            /\ res' = [res EXCEPT ![t] = Ok]
                            /\ Continue(t, <<WaitK(<<>>, <<>>, k.shape, k.implicit)>>)
                       ELSE IF row = None
                       THEN /\ res' = [res EXCEPT ![t] = error(t, RowsMessage)]
                            /\ Continue(t, <<>>)
                            /\ UNCHANGED stack
                       ELSE /\ res' = [res EXCEPT ![t] = Ok]
                            /\ Continue(t, <<WaitK(Tail(k.handles), Append(k.rows, row[1]),
                                                   k.shape, k.implicit)>>)
                            /\ UNCHANGED stack
    /\ UNCHANGED <<under_stack, call_stack, fills, array_depth, limits, world, outputs,
                   spawned, asm>>

\* a send that puts the value at the head of the queue
enqueue_AtHead(queue, value) == <<value>> \o queue

\* Sender::send on an unbounded channel: the value joins the end of the queue
enqueue(queue, value) == Append(queue, value)

RECURSIVE SendAll(_, _, _, _, _)
\* the loop of send: channel(id)?.send.send(value.clone()) for each id, from the
\* channels ch and the history hist; it stops at the first error
SendAll(t, ids, value, ch, hist) ==
    IF ids = <<>> THEN [channel |-> ch, sent |-> hist, err |-> None]
    ELSE LET id == Head(ids)
             children == thread[t].children
             failed(message) == [channel |-> ch, sent |-> hist, err |-> Some(message)]
         IN  IF id = 0
             THEN IF ~thread[t].parent THEN failed("Thread has no parent")
                  ELSE IF ~ch[t].parent_end THEN failed("Thread channel closed")
                  ELSE SendAll(t, Tail(ids), value,
                               [ch EXCEPT ![t].up = enqueue(@, value)],
                               [hist EXCEPT ![t].up_sent = Append(@, value)])
             ELSE IF id \notin DOMAIN children THEN failed("Invalid thread id")
                  ELSE IF ~ch[children[id]].child_end THEN failed("Thread channel closed")
                  ELSE SendAll(t, Tail(ids), value,
                               [ch EXCEPT ![children[id]].down = enqueue(@, value)],
                               [hist EXCEPT ![children[id]].down_sent = Append(@, value)])

\* Primitive::Send: send(pop(1), pop(2))
ExecSend(t) ==
    /\ AtExec(t, "Prim")
    /\ Top(t).node.prim = "send"
    /\ LET st == stack[t]
           span == Top(t).node.span
           ids == as_natural_array(Last(st))
           out == SendAll(t, ids.data, st[Len(st) - 1], channel, sent)
       IN  IF Len(st) < 2
           THEN /\ PrimReturns(t, <<>>, RunError(span, PopMessage(Len(st) + 1)))
                /\ UNCHANGED <<channel, sent>>
           ELSE IF ~ids.ok
           THEN /\ PrimReturns(t, Truncate(st, Len(st) - 2),
                       RunError(span, "Thread id must be an array of natural numbers"))
                /\ UNCHANGED <<channel, sent>>
           ELSE /\ PrimReturns(t, Truncate(st, Len(st) - 2),
                       IF out.err = None THEN Ok ELSE RunError(span, out.err[1]))
                /\ channel' = out.channel
                /\ sent' = out.sent
    /\ UNCHANGED <<under_stack, call_stack, fills, array_depth, limits, world, outputs,
                   thread, spawned, result, asm>>

\* Primitive::Recv: recv(pop(1)) up to the first id
ExecRecv(t) ==
    /\ AtExec(t, "Prim")
    /\ Top(t).node.prim = "recv"
    /\ LET st == stack[t]
           span == Top(t).node.span
           ids == as_natural_array(Last(st))
       IN  IF st = <<>>
           THEN PrimReturns(t, st, RunError(span, PopMessage(1))) /\ UNCHANGED call_stack
           ELSE IF ~ids.ok
           THEN /\ PrimReturns(t, Front(st),
                       RunError(span, "Thread id must be an array of natural numbers"))
                /\ UNCHANGED call_stack
           ELSE PrimContinues(t, Front(st), RecvK(ids.data, <<>>, ids.shape))
    /\ UNCHANGED <<under_stack, fills, array_depth, config, asm>>

\* channel(id): the interpreter whose channel id names, or the message of the error
channel_of(t, id) ==
    IF id = 0
    THEN IF thread[t].parent THEN [ok |-> TRUE, slot |-> t, message |-> ""]
         ELSE [ok |-> FALSE, slot |-> t, message |-> "Thread has no parent"]
    ELSE IF id \in DOMAIN thread[t].children
         THEN [ok |-> TRUE, slot |-> thread[t].children[id], message |-> ""]
         ELSE [ok |-> FALSE, slot |-> t, message |-> "Invalid thread id"]

\* a receiver that reads the queue of the values it has sent itself
recv_queue_Swapped(t, id, slot) == IF id = 0 THEN channel[slot].up ELSE channel[slot].down

\* the queue t receives from on the channel id names, and whether a sender of it lives
recv_queue(t, id, slot) == IF id = 0 THEN channel[slot].down ELSE channel[slot].up

\* a channel whose senders are taken to live for ever
sender_alive_Always(t, id, slot) == TRUE

sender_alive(t, id, slot) == IF id = 0 THEN channel[slot].parent_end ELSE channel[slot].child_end

\* channel and history after t took the head of the queue the channel id names
Received(t, id, slot) ==
    [ channel |-> IF id = 0 THEN [channel EXCEPT ![slot].down = Tail(@)]
                  ELSE [channel EXCEPT ![slot].up = Tail(@)],
      sent |-> IF id = 0
               THEN [sent EXCEPT ![slot].down_received = Append(@, Head(channel[slot].down))]
               ELSE [sent EXCEPT ![slot].up_received = Append(@, Head(channel[slot].up))] ]

\* recv(id) at its next id: the blocking recv on the channel, the implicit wait when
\* the channel is closed; after the last id, the value pushed
RecvStep(t) ==
    /\ At(t, "recv")
    /\ LET k == Top(t)
           id == Head(k.ids)
           ch == channel_of(t, id)
           queue == recv_queue(t, id, ch.slot)
           got == Received(t, id, ch.slot)
       IN  IF k.ids = <<>>
           THEN /\ IF k.shape = <<>>
                   THEN /\ stack' = [stack EXCEPT ![t] = Append(@, k.values[1])]
                        /\ res' = [res EXCEPT ![t] = Ok]
                   ELSE IF RowsAgree(k.values)
                   THEN /\ stack' = [stack EXCEPT ![t] = Append(@, from_row_values(k.values))]
                        /\ res' = [res EXCEPT ![t] = Ok]
                   ELSE /\ res' = [res EXCEPT ![t] = error(t, RowsMessage)]
                        /\ UNCHANGED stack
                /\ Continue(t, <<>>)
                /\ UNCHANGED <<channel, sent>>
           ELSE IF ~ch.ok
           THEN /\ res' = [res EXCEPT ![t] = error(t, ch.message)]
                /\ Continue(t, <<>>)
                /\ UNCHANGED <<stack, channel, sent>>
           ELSE IF queue # <<>>
           THEN /\ channel' = got.channel
                /\ sent' = got.sent
                /\ Continue(t, <<RecvK(Tail(k.ids), Append(k.values, Head(queue)), k.shape)>>)
                /\ UNCHANGED <<stack, res>>
           ELSE \* blocked until a value arrives or the last sender is dropped
                /\ ~sender_alive(t, id, ch.slot)
                /\ Continue(t, <<WaitK(<<id>>, <<>>, <<>>, TRUE)>>)
                /\ UNCHANGED <<stack, res, channel, sent>>
    /\ UNCHANGED <<under_stack, call_stack, fills, array_depth, limits, world, outputs,
                   thread, spawned, result, asm>>

\* Primitive::TryRecv: try_recv(pop(1))
ExecTryRecv(t) ==
    /\ AtExec(t, "Prim")
    /\ Top(t).node.prim = "try_recv"
    /\ LET st == stack[t]
           span == Top(t).node.span
           v == Last(st)
           id == v.n
           ch == channel_of(t, id)
           queue == recv_queue(t, id, ch.slot)
           got == Received(t, id, ch.slot)
       IN  IF st = <<>>
           THEN /\ PrimReturns(t, st, RunError(span, PopMessage(1)))
                /\ UNCHANGED <<call_stack, channel, sent>>
           ELSE IF ~(v.ty = TypeNum /\ v.scalar /\ v.n >= 0)
           THEN /\ PrimReturns(t, Front(st),
                       RunError(span, "Thread id must be a natural number"))
                /\ UNCHANGED <<call_stack, channel, sent>>
           ELSE IF ~ch.ok
           THEN /\ PrimReturns(t, Front(st), RunError(span, ch.message))
                /\ UNCHANGED <<call_stack, channel, sent>>
           ELSE IF queue # <<>>
           THEN /\ PrimReturns(t, Append(Front(st), Head(queue)), Ok)
                /\ channel' = got.channel
                /\ sent' = got.sent
                /\ UNCHANGED call_stack
           ELSE IF sender_alive(t, id, ch.slot)
           THEN /\ PrimReturns(t, Front(st), RunError(span, "No value available"))
                /\ UNCHANGED <<call_stack, channel, sent>>
           ELSE /\ PrimContinues(t, Front(st), WaitK(<<id>>, <<>>, <<>>, TRUE))
                /\ UNCHANGED <<channel, sent>>
    /\ UNCHANGED <<under_stack, fills, array_depth, limits, world, outputs,
                   thread, spawned, result, asm>>

-----------------------------------------------------------------------------
(* The host of the thread subsystem: it calls run_asm or exec with a       *)
(* program that spawns threads, and afterwards calls one of them again.    *)

\* Uiua::exec(node), called by the host whatever the last call returned
HostCallsExec(t, node) ==
    /\ t = MainInterpreter
    /\ ctl[t] = <<>>
    /\ runs < MaxRuns
    /\ res[t].kind # "Panic"
    /\ runs' = runs + 1
    /\ ctl' = [ctl EXCEPT ![t] = <<ExecK(node)>>]
    /\ UNCHANGED <<stack, under_stack, call_stack, fills, array_depth, limits, now, hook,
                   allow_thread_spawning, compiler, outputs, threads, asm, res>>

\* bodies of spawned threads
Leave == Run(<<>>)

PushTwo == Run(<<Push(Num(7)), Push(Num(8))>>)

SendUp ==
    Run(<< Push(Num(5)), Push(Num(0)), Prim("send", 46),
           Push(Num(6)), Push(Num(0)), Prim("send", 47) >>)

RecvDown == Run(<<Push(Num(0)), Prim("recv", 48), Push(Num(0)), Prim("recv", 49)>>)

SpawnInner == Spawn(FALSE, SigNode(Leave, Sig(0, 0)), 43)

Thread(body, args) == Spawn(FALSE, SigNode(body, Sig(args, args)), 40)

Wait == Prim("wait", 41)

WaitFor(id) == Run(<<Push(id), Wait>>)

RecvFrom(id) == Run(<<Push(Num(id)), Prim("recv", 50)>>)

SendTo(v, id) == Run(<<Push(v), Push(Num(id)), Prim("send", 51)>>)

\* programs that spawn and wait
WaitPrograms ==
    { Run(<<Thread(Leave, 1), Wait>>),
      Run(<<Spawn(TRUE, SigNode(Leave, Sig(2, 2)), 40), Wait>>),
      Run(<<Thread(PushTwo, 1), Wait>>),
      Run(<<Thread(FailNode, 0), Wait>>),
      Run(<<Thread(Call(FDrift, 42), 0), Wait>>),
      Run(<<Thread(Push(Num(7)), 0), Wait, Thread(SpawnInner, 0)>>),
      Run(<<Thread(Leave, 0), FailNode>>) }

\* the lists of ids a program waits for
IdLists == {ArrOf(TypeNum, <<Num(1), Num(2)>>), ArrOf(TypeNum, <<Num(2), Num(1)>>),
            ArrOf(TypeNum, <<Num(1), Num(5)>>), ArrOf(TypeNum, <<Num(1), Num(1)>>)}

\* programs that wait for a list of ids
WaitListPrograms ==
    { Run(<<Thread(bodies[1], 0), Thread(bodies[2], 0), WaitFor(ids)>>) :
        bodies \in {<<Push(Num(7)), Push(Num(8))>>, <<PushTwo, PushTwo>>,
                    <<Push(Num(7)), PushTwo>>, <<Push(Num(7)), FailNode>>},
        ids \in IdLists }

\* programs that use the channels
ChannelPrograms ==
    { Run(<<Thread(SendUp, 0), RecvFrom(1), RecvFrom(1), RecvFrom(1)>>),
      Run(<<Thread(SendUp, 0), Push(Num(1)), Prim("try_recv", 52),
            Push(Num(1)), Prim("try_recv", 53)>>),
      Run(<<Thread(RecvDown, 0), SendTo(Num(5), 1), SendTo(Num(6), 1), WaitFor(Num(1))>>),
      Run(<<Thread(RecvDown, 0), SendTo(Num(5), 1), WaitFor(Num(1))>>) }

\* programs that set output comments, assert tests and spawn
OutputPrograms ==
    { Run(<<Push(Num(c)), SetOutputComment(0, 1), SetOutputComment(0, 2),
            Push(Chr("m")), TestAssert(44), Thread(Leave, 0), last>>) :
        c \in {1, 2}, last \in {FailNode, Push(Num(3))} }

\* programs that receive from a thread that sends nothing, and one whose thread
\* receives from a parent that fails
ClosedPrograms ==
    { Run(<<Thread(body, 0), Push(Num(1)), Prim(prim, 55)>>) :
        body \in {FailNode, Call(FDrift, 42), PushTwo}, prim \in {"recv", "try_recv"} }
    \cup {Run(<<Thread(RecvDown, 0), FailNode>>)}

ThreadPrograms ==
    WaitPrograms \cup WaitListPrograms \cup ChannelPrograms \cup OutputPrograms
        \cup ClosedPrograms

\* what the host runs afterwards: the thread primitives on id 1, and one more spawn
\* and wait
FollowPrograms ==
    { Run(<<Push(Num(9)), Push(Num(1)), Prim(prim, 54)>>) :
        prim \in {"wait", "send", "recv", "try_recv"} }
    \cup {Run(<<Thread(Leave, 0), Wait>>)}

ThreadStacks == {<<>>, <<Num(3), Num(4)>>}

\* how the host has built its interpreter: with the defaults on a backend that forbids
\* spawning, or with every setting changed
ThreadConfigs ==
    { [allow |-> FALSE, ti |-> FALSE, limit |-> None, hook_set |-> None, rlimit |-> None,
       cli |-> NoCli],
      [allow |-> TRUE, ti |-> TRUE, limit |-> Some(1), hook_set |-> Some("hook"),
       rlimit |-> Some(7), cli |-> [arguments |-> <<"arg">>, file_path |-> "main.ua"]] }

InitThreads ==
    \E stk \in ThreadStacks, debug \in BOOLEAN, c \in ThreadConfigs :
        InitState(stk, debug, c.limit, c.hook_set,
                  IF c.rlimit = None THEN DefaultRecursionLimit(debug) ELSE c.rlimit[1],
                  c.allow, c.ti, c.cli)

HostPrograms == IF runs = 0 THEN ThreadPrograms ELSE FollowPrograms

StepThreads(t) ==
    \/ \E root \in HostPrograms : HostRunAsm(t, root)
    \/ \E node \in HostPrograms : HostCallsExec(t, node)
    \/ ExecPush(t)
    \/ ExecRun(t)
    \/ RunStep(t)
    \/ ExecUnpack(t)
    \/ ExecCall(t)
    \/ FrameAfter(t)
    \/ BoundaryPop(t)
    \/ SpanPop(t)
    \/ ExecSetOutputComment(t)
    \/ ExecTestAssert(t)
    \/ ExecSpawn(t)
    \/ ThreadEnd(t)
    \/ ExecWait(t)
    \/ WaitStep(t)
    \/ ExecSend(t)
    \/ ExecRecv(t)
    \/ RecvStep(t)
    \/ ExecTryRecv(t)
    \/ RunAsmAfter(t)
    \/ ExecTail(t)

NextThreads == \E t \in Interpreters : StepThreads(t)

SpecThreads == InitThreads /\ [][NextThreads]_vars

-----------------------------------------------------------------------------
(* Threads under a fair scheduler: the host runs one program that spawns   *)
(* and waits, and every interpreter that can take a step eventually does.  *)

StepWait(t) ==
    \/ \E root \in WaitPrograms : runs = 0 /\ HostRunAsm(t, root)
    \/ ExecPush(t)
    \/ ExecRun(t)
    \/ RunStep(t)
    \/ ExecUnpack(t)
    \/ ExecCall(t)
    \/ FrameAfter(t)
    \/ BoundaryPop(t)
    \/ SpanPop(t)
    \/ ExecSpawn(t)
    \/ ThreadEnd(t)
    \/ ExecWait(t)
    \/ WaitStep(t)
    \/ RunAsmAfter(t)
    \/ ExecTail(t)

NextWait == \E t \in Interpreters : StepWait(t)

\* the operating system schedules every thread that is not blocked
SpecThreadsFair ==
    /\ InitThreads
    /\ [][NextWait]_vars
    /\ \A t \in Interpreters : WF_vars(ctl[t] # <<>> /\ StepWait(t))

-----------------------------------------------------------------------------
(* Threads side by side: a parent and its child both work on their under   *)
(* stacks, fills, bindings, deferred constants and output comments.        *)

\* what the parent does between its spawn and its wait, and what the child does
IsolatedWork ==
    { Run(<<Push(Num(9)), PushUnder(1, 35), Push(Num(8)), PopUnder(1, 38)>>),
      Run(<<Push(Num(9)), SetOutputComment(0, 1)>>),
      CallGlobal(1),
      Run(<<Push(Num(9)), BindGlobal(6, 17), CallGlobal(6)>>),
      Mod("with_fill", Num(2), Push(Num(1)), 34),
      Mod("with_unfill", Num(2), Push(Num(1)), 34),
      Mod("without_fill", Num(0), Push(Num(1)), 14) }

\* the parent fills its under stack and spawns a first thread; then, inside a fill, an
\* unfill and a fill boundary, it spawns the thread that does child_work, does
\* parent_work itself and waits
IsolatedProgram(child_work, parent_work) ==
    Run(<< Push(Num(9)), PushUnder(1, 35), Thread(Leave, 0),
           Mod("with_fill", Num(2),
               Mod("with_unfill", Num(3),
                   Mod("without_fill", Num(0),
                       Run(<<Thread(child_work, 0), parent_work, Wait>>), 14), 15), 13) >>)

IsolatedPrograms ==
    {IsolatedProgram(child_work, parent_work) : child_work, parent_work \in IsolatedWork}

InitIsolated ==
    \E debug \in BOOLEAN :
        InitState(<<>>, debug, None, None, DefaultRecursionLimit(debug), TRUE, FALSE, NoCli)

StepIsolated(t) ==
    \/ \E node \in IsolatedPrograms : runs = 0 /\ HostCallsExec(t, node)
    \/ ExecPush(t)
    \/ ExecRun(t)
    \/ RunStep(t)
    \/ ExecPushUnder(t)
    \/ ExecPopUnder(t)
    \/ ExecArray(t)
    \/ ArrayAfter(t)
    \/ SpanPop(t)
    \/ BoundaryPop(t)
    \/ FillPop(t)
    \/ UnfillPop(t)
    \/ ExecCallGlobal(t)
    \/ ConstAfter(t)
    \/ ExecBindGlobal(t)
    \/ ExecMod(t)
    \/ ExecSetOutputComment(t)
    \/ ExecSpawn(t)
    \/ ThreadEnd(t)
    \/ ExecWait(t)
    \/ WaitStep(t)
    \/ ExecTail(t)

NextIsolated == \E t \in Interpreters : StepIsolated(t)

SpecIsolated == InitIsolated /\ [][NextIsolated]_vars

-----------------------------------------------------------------------------
(* exec_clean_stack and exec_maintain_sig: what a primitive calls to run   *)
(* a node and put the stacks in order when it fails.                       *)

CleanK(sig, under_sig, bottom, under_bottom, pre) ==
    [ k |-> "clean", sig |-> sig, under_sig |-> under_sig, bottom |-> bottom,
      under_bottom |-> under_bottom, pre |-> pre ]

MaintainK(sig, under_sig, args, target_height, under_target_height, pre) ==
    [ k |-> "maintain", sig |-> sig, under_sig |-> under_sig, args |-> args,
      target_height |-> target_height, under_target_height |-> under_target_height,
      pre |-> pre ]

\* sn.node.under_sig().unwrap_or(Signature::new(0, 0))
unwrap_or_zero(under_sig) == IF under_sig = None THEN Sig(0, 0) ELSE under_sig[1]

\* a bottom that is the height at entry
bottom_AtEntry(height, args) == height

\* self.stack_height().saturating_sub(sig.args)
bottom(height, args) == Max0(height - args)

\* exec_clean_stack(sn) up to its self.exec(sn.node); under_sig is what
\* sn.node.under_sig() answers
HostExecCleanStack(t, sn, under_sig) ==
    /\ t = MainInterpreter
    /\ ctl[t] = <<>>
    /\ runs = 1
    /\ ~IsErr(res[t])
    /\ runs' = runs + 1
    /\ ctl' = [ctl EXCEPT ![t] =
           << ExecK(sn.node),
              CleanK(sn.sig, under_sig, bottom(Len(stack[t]), sn.sig.args),
                     bottom(Len(under_stack[t]), unwrap_or_zero(under_sig).args),
                     [stack |-> stack[t], under |-> under_stack[t]]) >>]
    /\ UNCHANGED <<stack, under_stack, call_stack, fills, array_depth, limits, now, hook,
                   allow_thread_spawning, compiler, outputs, threads, asm, res>>

\* exec_clean_stack from the return of self.exec(sn.node) on; truncate_stack is
\* Vec::split_off, which panics when the stack is shorter than the size asked for,
\* and Vec::truncate leaves a shorter under stack alone
CleanStackAfter(t) ==
    /\ At(t, "clean")
    /\ LET k == Top(t)
       IN  IF ~IsErr(res[t])
           THEN /\ Continue(t, <<>>)
                /\ UNCHANGED <<stack, under_stack, res>>
           ELSE IF k.bottom > Len(stack[t])
           THEN /\ res' = [res EXCEPT ![t] = Panic("split_off: at > len")]
                /\ ctl' = [ctl EXCEPT ![t] = Unwound(Rest(t))]
                /\ UNCHANGED <<stack, under_stack>>
           ELSE /\ stack' = [stack EXCEPT ![t] = Truncate(@, k.bottom)]
                /\ under_stack' = [under_stack EXCEPT ![t] =
                       IF k.under_bottom < Len(@) THEN Truncate(@, k.under_bottom) ELSE @]
                /\ Continue(t, <<>>)
                /\ UNCHANGED res
    /\ UNCHANGED <<call_stack, fills, array_depth, config, asm>>

\* the top sn.sig.args values of the stack, the topmost first
saved_args(st, n) == Reverse(DrainFrom(st, Max0(Len(st) - n)))

\* a pop that takes the argument that was on top
pop_or_default_Topmost(args) == IF args = <<>> THEN DefaultValue ELSE Head(args)

\* args.pop().unwrap_or_default()
pop_or_default(args) == IF args = <<>> THEN DefaultValue ELSE Last(args)

RECURSIVE pad(_, _, _)
\* for _ in 0..diff { push(args.pop().unwrap_or_default()) }: the stack and what is
\* left of args
pad(st, args, diff) ==
    IF diff = 0 THEN [stack |-> st, args |-> args]
    ELSE pad(Append(st, pop_or_default(args)), IF args = <<>> THEN <<>> ELSE Front(args),
             diff - 1)

\* the match on the height of a stack against its target: equal, truncated, or padded
maintain(st, args, target) ==
    IF Len(st) > target THEN [stack |-> Truncate(st, target), args |-> args]
    ELSE pad(st, args, target - Len(st))

\* exec_maintain_sig(sn) up to its self.exec(sn)
HostExecMaintainSig(t, sn, under_sig) ==
    /\ t = MainInterpreter
    /\ ctl[t] = <<>>
    /\ runs = 1
    /\ ~IsErr(res[t])
    /\ runs' = runs + 1
    /\ ctl' = [ctl EXCEPT ![t] =
           << ExecK(sn.node),
              MaintainK(sn.sig, under_sig, saved_args(stack[t], sn.sig.args),
                        Max0(Len(stack[t]) + sn.sig.outputs - sn.sig.args),
                        Max0(Len(under_stack[t]) + unwrap_or_zero(under_sig).outputs
                                 - unwrap_or_zero(under_sig).args),
                        [stack |-> stack[t], under |-> under_stack[t]]) >>]
    /\ UNCHANGED <<stack, under_stack, call_stack, fills, array_depth, limits, now, hook,
                   allow_thread_spawning, compiler, outputs, threads, asm, res>>

\* exec_maintain_sig from the return of self.exec(sn) on
MaintainSigAfter(t) ==
    /\ At(t, "maintain")
    /\ LET k == Top(t)
           main == maintain(stack[t], k.args, k.target_height)
           under == maintain(under_stack[t], main.args, k.under_target_height)
       IN  /\ stack' = [stack EXCEPT ![t] = main.stack]
           /\ under_stack' = [under_stack EXCEPT ![t] = under.stack]
    /\ Continue(t, <<>>)
    /\ UNCHANGED <<call_stack, fills, array_depth, config, asm, res>>

\* what the host has on the stacks before the call: nothing, or values on both
SigSetups == {Run(<<>>), Run(<<Push(Num(8)), Push(Num(9)), PushUnder(2, 35)>>)}

SigStacks == {<<>>, <<Num(3)>>, <<Num(3), Num(4)>>}

\* the nodes handed over, with their signatures and under signatures: nodes that
\* succeed, nodes that fail with their arguments untouched, moved to the under stack
\* or consumed, and nodes that do not keep to their signature
SigPrograms ==
    { [sn |-> SigNode(Run(<<Push(Num(1)), Push(Num(2))>>), Sig(0, 2)), under_sig |-> None],
      [sn |-> SigNode(Run(<<Push(Num(5)), FailNode>>), Sig(1, 3)), under_sig |-> None],
      [sn |-> SigNode(Run(<<PushUnder(1, 35), Push(Num(5)), FailNode>>), Sig(1, 3)),
       under_sig |-> Some(Sig(0, 1))],
      [sn |-> SigNode(Run(<<PushUnder(2, 35), FailNode>>), Sig(2, 2)),
       under_sig |-> Some(Sig(0, 2))],
      [sn |-> SigNode(Run(<<PopUnder(1, 38), PopUnder(2, 38)>>), Sig(0, 3)),
       under_sig |-> Some(Sig(3, 0))],
      [sn |-> SigNode(PopUnder(1, 38), Sig(0, 1)), under_sig |-> Some(Sig(1, 0))],
      [sn |-> SigNode(Run(<<PushUnder(1, 35), PushUnder(5, 35)>>), Sig(0, 0)),
       under_sig |-> Some(Sig(0, 1))],
      [sn |-> SigNode(Run(<<Push(Num(1)), Push(Num(2))>>), Sig(0, 1)), under_sig |-> None],
      [sn |-> SigNode(PushUnder(1, 35), Sig(1, 1)), under_sig |-> Some(Sig(0, 2))] }

InitSig ==
    \E stk \in SigStacks, debug \in BOOLEAN :
        InitState(stk, debug, None, None, DefaultRecursionLimit(debug), TRUE, FALSE, NoCli)

StepSig(t) ==
    \/ \E node \in SigSetups : runs = 0 /\ HostCallsExec(t, node)
    \/ \E p \in SigPrograms : HostExecCleanStack(t, p.sn, p.under_sig)
    \/ \E p \in SigPrograms : HostExecMaintainSig(t, p.sn, p.under_sig)
    \/ CleanStackAfter(t)
    \/ MaintainSigAfter(t)
    \/ ExecPush(t)
    \/ ExecRun(t)
    \/ RunStep(t)
    \/ ExecPushUnder(t)
    \/ ExecPopUnder(t)
    \/ ExecUnpack(t)
    \/ ExecTail(t)

NextSig == \E t \in Interpreters : StepSig(t)

SpecSig == InitSig /\ [][NextSig]_vars

-----------------------------------------------------------------------------
(* The stack manipulation a primitive calls: take_n, copy_n, prepare_fork, *)
(* dup_values, rotate_up and rotate_down.                                  *)

\* what a call has made of the stack: an error message, a panic, or the new stack and
\* the values returned
Returned(st, vals) == [err |-> None, panic |-> FALSE, stack |-> st, vals |-> vals]

Underflow(st, n) == [err |-> require_height(st, n), panic |-> FALSE, stack |-> st, vals |-> <<>>]

Panicked(st) == [err |-> None, panic |-> TRUE, stack |-> st, vals |-> <<>>]

\* take_n: self.rt.stack.split_off(height)
take_n(st, n) ==
    IF require_height(st, n) # None THEN Underflow(st, n)
    ELSE Returned(Truncate(st, Len(st) - n), DrainFrom(st, Len(st) - n))

\* copy_n: self.rt.stack[height..].to_vec()
copy_n(st, n) ==
    IF require_height(st, n) # None THEN Underflow(st, n)
    ELSE Returned(st, DrainFrom(st, Len(st) - n))

\* prepare_fork: the arguments of f, of which the top g_args stay on the stack
prepare_fork(st, f_args, g_args) ==
    IF f_args > g_args
    THEN IF require_height(st, f_args) # None THEN Underflow(st, f_args)
         ELSE LET len == Len(st)
                  drained == SubSeq(st, len - f_args + 1, len - g_args)
                  left == Truncate(st, len - f_args) \o DrainFrom(st, len - g_args)
              IN  Returned(left, drained \o DrainFrom(left, Len(left) - g_args))
    ELSE copy_n(st, f_args)

\* a rotate_left that rotates to the right
rotate_left_ToTheRight(slice, k) ==
    SubSeq(slice, Len(slice) - k + 1, Len(slice)) \o SubSeq(slice, 1, Len(slice) - k)

\* slice::rotate_left(k), for k <= len: the first k elements go to the end
rotate_left(slice, k) == SubSeq(slice, k + 1, Len(slice)) \o SubSeq(slice, 1, k)

\* slice::rotate_right(k), for k <= len: the last k elements come to the front
rotate_right(slice, k) ==
    SubSeq(slice, Len(slice) - k + 1, Len(slice)) \o SubSeq(slice, 1, Len(slice) - k)

RECURSIVE push_copies(_, _, _, _)
\* for i in 0..n { stack.push(stack[start + i].clone()) } from i on; None when the
\* index is out of bounds
push_copies(st, start, i, n) ==
    IF i = n THEN Some(st)
    ELSE IF start + i + 1 > Len(st) THEN None
    ELSE push_copies(Append(st, st[start + i + 1]), start, i + 1, n)

\* dup_values: n values at depth are copied to the top and rotated under the rest
dup_values(st, n, depth) ==
    IF require_height(st, depth) # None THEN Underflow(st, depth)
    ELSE LET start == Len(st) - depth
             pushed == push_copies(st, start, 0, n)
         IN  IF pushed = None THEN Panicked(st)
             ELSE IF n # depth
             THEN Returned(Truncate(pushed[1], start)
                               \o rotate_right(DrainFrom(pushed[1], start), n), <<>>)
             ELSE Returned(pushed[1], <<>>)

\* rotate_up: self.rt.stack[start..].rotate_right(n), which panics when n > depth
rotate_up(st, n, depth) ==
    IF require_height(st, depth) # None THEN Underflow(st, depth)
    ELSE IF n > depth THEN Panicked(st)
    ELSE Returned(Truncate(st, Len(st) - depth)
                      \o rotate_right(DrainFrom(st, Len(st) - depth), n), <<>>)

\* rotate_down: self.rt.stack[start..].rotate_left(n), which panics when n > depth
rotate_down(st, n, depth) ==
    IF require_height(st, depth) # None THEN Underflow(st, depth)
    ELSE IF n > depth THEN Panicked(st)
    ELSE Returned(Truncate(st, Len(st) - depth)
                      \o rotate_left(DrainFrom(st, Len(st) - depth), n), <<>>)

StackOps == {"take_n", "copy_n", "prepare_fork", "dup_values", "rotate_up", "rotate_down"}

\* the call op(n, depth) on the stack st; take_n and copy_n have no second argument,
\* the arguments of prepare_fork are f_args and g_args
StackOp(op, st, n, depth) ==
    CASE op = "take_n" -> take_n(st, n)
      [] op = "copy_n" -> copy_n(st, n)
      [] op = "prepare_fork" -> prepare_fork(st, n, depth)
      [] op = "dup_values" -> dup_values(st, n, depth)
      [] op = "rotate_up" -> rotate_up(st, n, depth)
      [] op = "rotate_down" -> rotate_down(st, n, depth)

\* the caller after the call it made when the stack was pre: it holds the values
\* returned; first is the stack before an earlier call, if there was one
StackOpK(op, n, depth, pre, vals, first) ==
    [k |-> "stack_op", op |-> op, n |-> n, depth |-> depth, pre |-> pre, vals |-> vals,
     first |-> first]

\* the caller makes the call op(n, depth) from the continuations ks
CallsStackOp(t, op, n, depth, first) ==
    LET out == StackOp(op, stack[t], n, depth)
    IN  /\ stack' = [stack EXCEPT ![t] = out.stack]
        /\ res' = [res EXCEPT ![t] =
               IF out.panic THEN Panic("index or rotation out of bounds")
               ELSE IF out.err # None THEN error(t, out.err[1])
               ELSE Ok]
        /\ ctl' = [ctl EXCEPT ![t] = <<StackOpK(op, n, depth, stack[t], out.vals, first)>>]
        /\ UNCHANGED <<under_stack, call_stack, fills, array_depth, config, asm>>

\* the counts and depths a caller asks for
OpCounts == 0..(MaxHeight + 1)

\* a primitive calls one of the functions
HostStackOp(t) ==
    /\ t = MainInterpreter
    /\ ctl[t] = <<>>
    /\ res[t] = NotRun
    /\ \E op \in StackOps, n \in OpCounts :
          \E depth \in IF op \in {"take_n", "copy_n"} THEN {0} ELSE OpCounts :
             CallsStackOp(t, op, n, depth, None)

\* after a rotate_up(n, depth) that succeeded, the primitive calls rotate_down(n, depth)
HostRotatesBack(t) ==
    /\ At(t, "stack_op")
    /\ Top(t).op = "rotate_up"
    /\ Top(t).first = None
    /\ res[t] = Ok
    /\ CallsStackOp(t, "rotate_down", Top(t).n, Top(t).depth, Some(Top(t).pre))

InitStackOps ==
    \E stk \in InitStacks, debug \in BOOLEAN :
        InitState(stk, debug, None, None, DefaultRecursionLimit(debug), TRUE, FALSE, NoCli)

StepStackOps(t) ==
    \/ HostStackOp(t)
    \/ HostRotatesBack(t)

NextStackOps == \E t \in Interpreters : StepStackOps(t)

SpecStackOps == InitStackOps /\ [][NextStackOps]_vars

-----------------------------------------------------------------------------
(* Signatures of nodes, as the signature checker infers them.              *)

Max(a, b) == IF a >= b THEN a ELSE b

\* the signature of running a node of signature s1 and then one of signature s2
Compose(s1, s2) ==
    Sig(s1.args + Max(0, s2.args - s1.outputs), s2.outputs + Max(0, s1.outputs - s2.args))

RECURSIVE NodeSig(_)
RECURSIVE RunSig(_)
NodeSig(node) ==
    CASE node.k = "Push" -> Sig(0, 1)
      [] node.k = "PushUnder" -> Sig(node.n, 0)
      [] node.k = "CopyToUnder" -> Sig(node.n, node.n)
      [] node.k = "PopUnder" -> Sig(0, node.n)
      [] node.k = "Unpack" -> Sig(1, node.count)
      [] node.k = "Format" -> Sig(Max(Len(node.parts) - 1, 0), 1)
      [] node.k \in {"ValidateType", "Label", "RemoveLabel"} -> Sig(1, 1)
      [] node.k = "Run" -> RunSig(node.nodes)
      [] node.k = "Array" -> Compose(NodeSig(node.inner), Sig(node.len.len, 1))

RunSig(nodes) ==
    IF nodes = <<>> THEN Sig(0, 0)
    ELSE Compose(NodeSig(Head(nodes)), RunSig(Tail(nodes)))

-----------------------------------------------------------------------------
(* Data definitions: Compiler::data_def lowers a DataDef to getters, the   *)
(* Fields constant, the constructor New and, for some boxed definitions,   *)
(* the SoA constructor.                                                    *)

\* Node::Mod(Primitive::Dip, [sn], span)
Dip(sn, span) == [k |-> "Dip", sn |-> sn, span |-> span]

\* Node::ImplPrim(prim, span) for UnBox, TagVariant, ValidateVariant and
\* ValidateNonBoxedVariant
ImplPrim(prim, span) == [k |-> "ImplPrim", prim |-> prim, span |-> span]

NormalizeSoA(len_index, mask, span) ==
    [k |-> "NormalizeSoA", len_index |-> len_index, mask |-> mask, span |-> span]

GetLocal(def, span) == [k |-> "GetLocal", def |-> def, span |-> span]

\* Node::empty()
EmptyNode == Run(<<>>)

\* Node::is_empty
is_empty(node) == node.k = "Run" /\ node.nodes = <<>>

\* Node::push: a run is extended in place, any other node becomes the head of a run
NodePush(node, n) ==
    LET head == IF node.k = "Run" THEN node.nodes ELSE <<node>>
        tail == IF n.k = "Run" THEN n.nodes ELSE <<n>>
    IN  Run(head \o tail)

\* Node::extend(Option<Node>)
NodeExtend(node, opt) == IF opt = None THEN node ELSE NodePush(node, opt[1])

\* Node::sig_node of a node the compiler generated
DataSig(node) ==
    CASE node.k = "Dip" -> Sig(node.sn.sig.args + 1, node.sn.sig.outputs + 1)
      [] node.k = "CustomInverse" -> node.sn.sig
      [] node.k = "ImplPrim" ->
            IF node.prim \in {"TagVariant", "ValidateVariant"} THEN Sig(2, 1) ELSE Sig(1, 1)
      [] node.k = "Prim" -> Sig(2, 1)
      [] node.k = "Call" -> node.f.sig
      [] node.k = "NormalizeSoA" -> Sig(1, 1)
      [] node.k = "GetLocal" -> Sig(0, 1)
      [] OTHER -> NodeSig(node)

RECURSIVE sig_of(_)
RECURSIVE sig_of_run(_)
sig_of(node) ==
    CASE node.k = "Run" -> sig_of_run(node.nodes)
      [] node.k = "TrackCaller" -> sig_of(node.inner)
      [] node.k = "Array" -> Compose(sig_of(node.inner), Sig(node.len.len, 1))
      [] OTHER -> DataSig(node)

\* the signature of a run: that of its first half composed with that of the rest
sig_of_run(nodes) ==
    IF nodes = <<>> THEN Sig(0, 0)
    ELSE IF Len(nodes) = 1 THEN sig_of(nodes[1])
    ELSE LET half == Len(nodes) \div 2
         IN  Compose(sig_of_run(SubSeq(nodes, 1, half)),
                     sig_of_run(SubSeq(nodes, half + 1, Len(nodes))))

sig_node(node) == SigNode(node, sig_of(node))

\* the width of the u64 that holds NormalizeSoA's mask
MaskWidth == 64

\* ast::DataField as data_def reads it: init is None or Some(a), a the number of
\* arguments of the initializer's words; validator says whether one is written
DataField(name, init, validator) == [name |-> name, init |-> init, validator |-> validator]

\* ast::DataDef: name is "" for an unnamed definition, fields is None or
\* Some([boxed, fields]); no data function is written
DataDef(name, fields, variant) == [name |-> name, fields |-> fields, variant |-> variant]

DataFields(boxed, fields) == Some([boxed |-> boxed, fields |-> fields])

\* add_span(data_field.name.span): the span of field i (0-based)
FieldSpan(i) == 60 + i

\* add_span(data.init_span)
DefSpan == 59

\* words_sig of a validator that accepts every value: the identity, signature (1, 1)
ValidatorSn == SigNode(EmptyNode, Sig(1, 1))

\* validator_and_inv when un_inverse succeeds: (validator, inverse) as CustomInverse nodes
validator_node(span) == CustomInverse(ValidatorSn, span)

validator_inv_node(span) == CustomInverse(ValidatorSn, span)

\* words_sig(init.words) of an initializer with a arguments and one output: no
\* argument pushes a number, a > 0 arguments are boxed into one array
InitWords(i, a) ==
    IF a = 0 THEN SigNode(Push(Num(7 + i)), Sig(0, 1))
    ELSE SigNode(Array(Static(a), EmptyNode, TRUE, FieldSpan(i)), Sig(a, 1))

\* the Field data_def collects for field i (0-based) of the list
CollectField(f, i) ==
    LET span == FieldSpan(i)
        sn == InitWords(i, f.init[1])
    IN  [ name |-> f.name, span |-> span, global_index |-> 0,
          validator_inv |-> IF f.validator THEN Some(validator_inv_node(span)) ELSE None,
          init |-> IF f.init # None
                   THEN Some(SigNode(IF f.validator
                                     THEN NodePush(sn.node, validator_node(span))
                                     ELSE sn.node,
                                     sn.sig))
                   ELSE IF f.validator
                   THEN Some(SigNode(validator_node(span), Sig(1, 1)))
                   ELSE None ]

CollectFields(data) ==
    IF data.fields = None THEN <<>>
    ELSE [i \in 1..Len(data.fields[1].fields) |-> CollectField(data.fields[1].fields[i], i - 1)]

\* the arguments field takes from the stack
field_args(field) == IF field.init # None THEN field.init[1].sig.args ELSE 1

RECURSIVE SumArgs(_)
\* .map(...).sum(), half of the fields at a time
SumArgs(fields) ==
    IF fields = <<>> THEN 0
    ELSE IF Len(fields) = 1 THEN field_args(fields[1])
    ELSE LET half == Len(fields) \div 2
         IN  SumArgs(SubSeq(fields, 1, half)) + SumArgs(SubSeq(fields, half + 1, Len(fields)))

\* constructor_args: the sum of the fields' argument counts
constructor_args(fields) == SumArgs(fields)

\* a constructor that never wraps the fields compiled so far
dip_count_None(arg) == 0

\* how many Dip modifiers wrap the fields compiled so far, for the field arg
dip_count(arg) == arg.sig.args

RECURSIVE wrap_in_dips(_, _, _)
\* for _ in 0..n { inner = Node::Mod(Dip, [inner.sig_node()], span) }
wrap_in_dips(inner, n, span) ==
    IF n = 0 THEN inner ELSE wrap_in_dips(Dip(sig_node(inner), span), n - 1, span)

\* what the constructor runs for one field: its initializer or nothing, then the
\* label of a boxed definition or the check of a non-boxed variant
field_arg(field, boxed, variant, span) ==
    LET arg == IF field.init # None THEN field.init[1] ELSE SigNode(EmptyNode, Sig(1, 1))
    IN  SigNode(IF boxed THEN NodePush(arg.node, Label(field.name, span))
                ELSE IF variant
                THEN NodePush(arg.node,
                              TrackCaller(ImplPrim("ValidateNonBoxedVariant", field.span)))
                ELSE arg.node,
                arg.sig)

\* one turn of the loop over fields.iter().rev(): inner is the node built for the
\* fields after field
constructor_turn(field, inner, boxed, variant) ==
    LET arg == field_arg(field, boxed, variant, DefSpan)
        wrapped == IF ~is_empty(inner)
                   THEN wrap_in_dips(inner, dip_count(arg), DefSpan)
                   ELSE inner
    IN  NodePush(wrapped, arg.node)

RECURSIVE constructor_inner(_, _, _, _, _, _)
\* the loop over fields.iter().rev(), for the fields lo..hi: the later half of the
\* fields is compiled first and the earlier half goes around it
constructor_inner(fields, lo, hi, inner, boxed, variant) ==
    IF lo > hi THEN inner
    ELSE IF lo = hi THEN constructor_turn(fields[lo], inner, boxed, variant)
    ELSE LET mid == (lo + hi) \div 2
             later == constructor_inner(fields, mid + 1, hi, inner, boxed, variant)
         IN  IF is_empty(later)
             THEN constructor_inner(fields, lo, mid, EmptyNode, boxed, variant)
             ELSE constructor_inner(fields, lo, mid, later, boxed, variant)

\* the body of New
constructor_node(data, fields, boxed, variant_index) ==
    LET built == IF data.fields # None
                 THEN Array(Static(Len(fields)),
                            constructor_inner(fields, 1, Len(fields), EmptyNode, boxed, data.variant),
                            boxed, DefSpan)
                 ELSE EmptyNode
        pushed == NodePush(built, Push(Num(variant_index)))
        labelled == IF data.name # "" THEN NodePush(pushed, Label(data.name, DefSpan)) ELSE pushed
    IN  IF ~data.variant THEN built
        ELSE IF data.fields # None THEN NodePush(labelled, ImplPrim("TagVariant", DefSpan))
        ELSE labelled

\* the body of the getter of field i (0-based)
getter_node(data, field, i, boxed, variant_index) ==
    LET span == field.span
        pushed == NodePush(EmptyNode, Push(Num(variant_index)))
        labelled == IF data.name # "" THEN NodePush(pushed, Label(data.name, span)) ELSE pushed
        checked == IF data.variant
                   THEN NodePush(labelled, ImplPrim("ValidateVariant", span))
                   ELSE EmptyNode
        picked == TrackCaller(NodePush(NodePush(checked, Push(Num(i))), Prim("pick", span)))
        opened == IF boxed
                  THEN NodePush(NodePush(picked, ImplPrim("UnBox", span)), RemoveLabel(span))
                  ELSE picked
    IN  NodeExtend(opened, field.validator_inv)

\* fields.iter().position(|f| f.init.is_none()), 0-based, or None
len_index(fields) ==
    LET missing == {i \in 1..Len(fields) : fields[i].init = None}
    IN  IF missing = {} THEN None
        ELSE Some((CHOOSE i \in missing : \A j \in missing : i <= j) - 1)

\* the bits of the u64 mask: field i with an initializer sets bit i, and a shift by
\* MaskWidth or more takes the shift amount modulo MaskWidth where overflow is not
\* checked
mask_bits(fields) == {(i - 1) % MaskWidth : i \in {j \in 1..Len(fields) : fields[j].init # None}}

\* the shift (... as u64) << i overflows for some field
shift_overflows(fields) == Len(fields) > MaskWidth

\* the body of SoA
soa_node(constructor_func, fields) ==
    TrackCaller(Run(<<Call(constructor_func, DefSpan),
                      NormalizeSoA(len_index(fields)[1], mask_bits(fields), DefSpan)>>))

\* asm.add_function(id, sig, node): the function it returns and the entry of asm.functions
AddedFunction(c, offset, id, sig) == Function(id, sig, Len(c.functions) + offset)

FunctionEntry(id, sig, node) == [id |-> id, sig |-> sig, node |-> node]

\* compile_bind_function / compile_bind_const: the name bound in a scope to a global
Bound(name, index, scope) == [name |-> name, index |-> index, scope |-> scope]

\* in_scope(kind, f) before f runs: the current scope joins higher_scopes and a
\* fresh scope becomes current
EnterScope(c, kind, name) ==
    [c EXCEPT !.higher_scopes = Append(@, c.scope),
              !.scope = Scope(kind, name, c.scopes_made),
              !.scopes_made = @ + 1]

\* in_scope(kind, f) after f returned: the scope that was current comes back
LeaveScope(c) ==
    [c EXCEPT !.scope = Last(c.higher_scopes), !.higher_scopes = Front(@)]

\* module_scope.data_variants += 1 on higher_scopes.last_mut().unwrap_or(&mut scope)
CountVariant(c) ==
    IF c.higher_scopes # <<>>
    THEN [c EXCEPT !.higher_scopes[Len(c.higher_scopes)].data_variants = @ + 1]
    ELSE [c EXCEPT !.scope.data_variants = @ + 1]

\* a compiler that reads the counter of the scope the definition compiles in
variant_counter_OfOwnScope(c) == c.scope.data_variants

\* module_scope.data_variants as data_def reads it
variant_counter(c) ==
    IF c.higher_scopes # <<>> THEN Last(c.higher_scopes).data_variants
    ELSE c.scope.data_variants

\* SUBSCRIPT_DIGITS: the subscript form of each digit, 0 first
SUBSCRIPT_DIGITS == <<"_0", "_1", "_2", "_3", "_4", "_5", "_6", "_7", "_8", "_9">>

RECURSIVE push_subscript(_)
\* while i > 0 { comment.push(SUBSCRIPT_DIGITS[i % 10]); i /= 10; }
push_subscript(i) ==
    IF i > 0 THEN <<SUBSCRIPT_DIGITS[(i % 10) + 1]>> \o push_subscript(i \div 10)
    ELSE <<>>

RECURSIVE comment_args(_, _, _)
\* for i in 0..n: a space, the name of the field and the subscript of i + 1
comment_args(name, i, n) ==
    IF i >= n THEN <<>>
    ELSE <<" ", name>> \o push_subscript(i + 1) \o comment_args(name, i + 1, n)

\* what the loop over the fields pushes for one field
comment_field(field) ==
    IF field.init # None /\ field.init[1].sig.args = 0 THEN <<>>
    ELSE IF field.init = None \/ field.init[1].sig.args = 1 THEN <<" ", field.name>>
    ELSE comment_args(field.name, 0, field.init[1].sig.args)

RECURSIVE comment_fields(_)
comment_fields(fields) ==
    IF fields = <<>> THEN <<>>
    ELSE comment_field(Head(fields)) \o comment_fields(Tail(fields))

\* the doc comment of New, as the pieces pushed to it one after the other
new_comment(def_name, fields) ==
    (IF def_name # "" THEN <<"Create a new ", def_name, "\n", def_name, " ?">>
     ELSE <<"Create a new data instance\nInstance ?">>)
    \o comment_fields(fields)

\* data_def from "Add to defs" on; home is the id of the scope the definition is
\* written in and overflow_checks whether the build checks shifts
DataDefBody(c, data, home, overflow_checks) ==
    LET def_name == IF c.scope.kind = "Module" THEN c.scope.name ELSE ""
        def_index == c.defs
        collected == CollectFields(data)
        n == Len(collected)
        boxed == data.fields # None /\ data.fields[1].boxed
        variant_index == IF data.variant THEN variant_counter(c) ELSE 0
        c1 == IF data.variant THEN CountVariant(c) ELSE c
        \* getters: one function and one global per field
        fields == [i \in 1..n |-> [collected[i] EXCEPT !.global_index = c.next_global + i - 1]]
        getters == [i \in 1..n |->
                       FunctionEntry(fields[i].name, Sig(1, 1),
                                     getter_node(data, fields[i], i - 1, boxed, variant_index))]
        getter_names == [i \in 1..n |-> Bound(fields[i].name, fields[i].global_index, c.scope.id)]
        \* the Fields constant
        fields_const == Bound("Fields", c.next_global + n, c.scope.id)
        \* the constructor
        total_args == constructor_args(fields)
        new_node == constructor_node(data, fields, boxed, variant_index)
        constructor_func == AddedFunction(c, n + 1, "New", Sig(total_args, 1))
        contructor_local == c.next_global + n + 1
        errors == IF data.variant /\ data.name = ""
                  THEN Append(c.errors, "Variants must have a name")
                  ELSE c.errors
        \* the method scope: a local getter per field and Self
        method_scope == c.scopes_made
        locals == [i \in 1..n |->
                      FunctionEntry(fields[i].name, Sig(0, 1),
                                    Run(<<GetLocal(def_index, fields[i].span),
                                          CallGlobal(fields[i].global_index)>>))]
        local_names == [i \in 1..n |->
                           Bound(fields[i].name, c.next_global + n + 1 + i, method_scope)]
        self_getter == FunctionEntry("Self", Sig(0, 1), GetLocal(def_index, DefSpan))
        self_name == Bound("Self", c.next_global + 2 * n + 2, method_scope)
        \* the SoA constructor
        has_soa == boxed /\ len_index(fields) # None
        soa == FunctionEntry("SoA", Sig(total_args, 1), soa_node(constructor_func, fields))
        soa_name == Bound("SoA", c.next_global + 2 * n + 3, c.scope.id)
        new_name == Bound("New", contructor_local, c.scope.id)
        record == [ data |-> data, home |-> home, def_index |-> def_index,
                    variant_index |-> variant_index, boxed |-> boxed,
                    first_function |-> Len(c.functions),
                    fields |-> fields, total_args |-> total_args,
                    new |-> constructor_func.index,
                    comment |-> new_comment(def_name, fields),
                    soa |-> IF has_soa THEN Some(Len(c.functions) + 2 * n + 3) ELSE None,
                    clean |-> errors = <<>> ]
    IN  IF has_soa /\ shift_overflows(fields) /\ overflow_checks
        THEN [c EXCEPT !.failed = Some("attempt to shift left with overflow")]
        ELSE [c1 EXCEPT
                !.defs = @ + 1,
                \* add_span: one span per field and the span of the initializer list
                !.spans = @ + n + 1,
                !.scope.data_def = TRUE,
                !.scopes_made = @ + 1,
                !.errors = errors,
                !.next_global = @ + 2 * n + 3 + (IF has_soa THEN 1 ELSE 0),
                !.functions = @ \o getters \o <<FunctionEntry("New", Sig(total_args, 1), new_node)>>
                                \o locals \o <<self_getter>>
                                \o (IF has_soa THEN <<soa>> ELSE <<>>),
                !.bindings = @ \o getter_names \o <<fields_const>> \o local_names
                                \o <<self_name>> \o (IF has_soa THEN <<soa_name>> ELSE <<>>)
                                \o <<new_name>>,
                !.compiled = Append(@, record)]

\* data_def with the global index of the definition taken before the scope is
\* asked whether it holds a definition already
data_def_AllocatesFirst(c, data, top_level, overflow_checks) ==
    LET taken == [c EXCEPT !.next_global = @ + 1]
    IN  IF top_level /\ data.name # ""
        THEN LET inside == EnterScope(taken, "Module", data.name)
                 done == DataDefBody(inside, data, c.scope.id, overflow_checks)
                 left == LeaveScope(done)
             IN  IF done.failed # None THEN [c EXCEPT !.failed = done.failed]
                 ELSE [left EXCEPT !.bindings =
                                      Append(@, Bound(data.name, c.next_global, c.scope.id))]
        ELSE IF top_level /\ c.scope.data_def
        THEN [taken EXCEPT
                 !.failed = Some("A module cannot have multiple unnamed data definitions")]
        ELSE DataDefBody(c, data, c.scope.id, overflow_checks)

\* Compiler::data_def(data, top_level, prelude)
data_def(c, data, top_level, overflow_checks) ==
    IF top_level /\ data.name # ""
    THEN \* a top-level named definition compiles in a module scope of its own
         LET global_index == c.next_global
             inside == EnterScope([c EXCEPT !.next_global = @ + 1], "Module", data.name)
             done == DataDefBody(inside, data, c.scope.id, overflow_checks)
             left == LeaveScope(done)
         IN  IF done.failed # None THEN [c EXCEPT !.failed = done.failed]
             ELSE [left EXCEPT !.bindings = Append(@, Bound(data.name, global_index, c.scope.id))]
    ELSE IF top_level /\ c.scope.data_def
    THEN [c EXCEPT !.failed = Some("A module cannot have multiple unnamed data definitions")]
    ELSE DataDefBody(c, data, c.scope.id, overflow_checks)

\* Primitive::Pick on a scalar index: the index is popped first, then the array
PickOp(st) ==
    IF Len(st) < 2 THEN Fail(st, <<>>, PopMessage(Len(st) + 1))
    ELSE LET index == st[Len(st)]
             array == st[Len(st) - 1]
             below == Truncate(st, Len(st) - 2)
         IN  IF index.n >= row_count(array) \/ array.scalar
             THEN Fail(below, <<>>, "Index out of bounds")
             ELSE Done(Append(below, array.rows[index.n + 1]), <<>>)

\* ImplPrimitive::TagVariant: the tag is popped first, then the instance; the
\* tagged instance pairs the two
TagVariantOp(st) ==
    IF Len(st) < 2 THEN Fail(st, <<>>, PopMessage(Len(st) + 1))
    ELSE Done(Append(Truncate(st, Len(st) - 2),
                     ArrOf(TypeBox, <<BoxOf(st[Len(st)]), BoxOf(st[Len(st) - 1])>>)), <<>>)

\* ImplPrimitive::ValidateVariant: the tag is popped first, then the instance, which
\* is pushed back without its tag when the tags agree
ValidateVariantOp(st) ==
    IF Len(st) < 2 THEN Fail(st, <<>>, PopMessage(Len(st) + 1))
    ELSE LET tag == st[Len(st)]
             value == st[Len(st) - 1]
             below == Truncate(st, Len(st) - 2)
         IN  IF ~value.scalar /\ Len(value.rows) = 2 /\ value.rows[1] = BoxOf(tag)
             THEN Done(Append(below, unboxed(value.rows[2])), <<>>)
             ELSE Fail(below, <<>>, "Variant mismatch")

\* monadic_mut(Value::unbox)
UnBoxOp(st) ==
    IF st = <<>> THEN Fail(st, <<>>, PopMessage(1))
    ELSE Done(Append(Front(st), unboxed(Last(st))), <<>>)

RECURSIVE ExecData(_, _)
RECURSIVE ExecDataRun(_, _)
\* exec of a node that data_def generated, on the stack st
ExecData(node, st) ==
    CASE node.k = "Push" -> Done(Append(st, node.val), <<>>)
      [] node.k = "Run" -> ExecDataRun(node.nodes, st)
      [] node.k = "Label" -> LabelOp(st, <<>>, node.label)
      [] node.k = "RemoveLabel" -> RemoveLabelOp(st, <<>>)
      [] node.k = "TrackCaller" -> ExecData(node.inner, st)
      [] node.k = "CustomInverse" -> ExecData(node.sn.node, st)
      [] node.k = "Array" ->
            LET inner == ExecData(node.inner, st)
            IN  IF inner.err # None THEN inner
                ELSE MakeArrayOp(inner.stack, <<>>, node.len, node.boxed, Len(st))
      [] node.k = "Dip" ->
            IF st = <<>> THEN Fail(st, <<>>, PopMessage(1))
            ELSE LET inner == ExecData(node.sn.node, Front(st))
                 IN  IF inner.err # None THEN inner
                     ELSE Done(Append(inner.stack, Last(st)), <<>>)
      [] node.k = "Prim" -> PickOp(st)
      [] node.k = "ImplPrim" ->
            CASE node.prim = "TagVariant" -> TagVariantOp(st)
              [] node.prim = "ValidateVariant" -> ValidateVariantOp(st)
              [] node.prim = "UnBox" -> UnBoxOp(st)
              [] node.prim = "ValidateNonBoxedVariant" ->
                    IF st = <<>> THEN Fail(st, <<>>, PopMessage(1)) ELSE Done(st, <<>>)

\* for node in nodes { self.exec(node)?; }: the first half of the nodes, then the rest
ExecDataRun(nodes, st) ==
    IF nodes = <<>> THEN Done(st, <<>>)
    ELSE IF Len(nodes) = 1 THEN ExecData(nodes[1], st)
    ELSE LET half == Len(nodes) \div 2
             first == ExecDataRun(SubSeq(nodes, 1, half), st)
         IN  IF first.err # None THEN first
             ELSE ExecDataRun(SubSeq(nodes, half + 1, Len(nodes)), first.stack)

\* the caller after Node::Call of function f of definition def (an index into
\* compiler.compiled); pre is the stack before the call, drift whether the drift
\* check failed, and made what the call of New before it returned, if any
DataCallK(def, f, field, pre, drift, made) ==
    [k |-> "data_call", def |-> def, f |-> f, field |-> field, pre |-> pre, drift |-> drift,
     made |-> made]

\* exec(Node::Call(f, span)) for a generated function f, on the stack st: the body
\* runs and exec_with_frame_span checks the height against the signature
CallsGenerated(t, def, f, field, st, made) ==
    LET entry == compiler.functions[f]
        out == ExecData(entry.node, st)
        drift == out.err = None /\ ~HeightMatchesSig(Len(out.stack), Len(st), entry.sig)
        message == DriftMessage(Len(out.stack) - Len(st), entry.sig,
                                entry.sig.outputs - entry.sig.args)
    IN  /\ stack' = [stack EXCEPT ![t] = out.stack]
        /\ res' = [res EXCEPT ![t] =
               IF out.err # None THEN error(t, out.err[1])
               ELSE IF ~drift THEN Ok
               ELSE IF debug_assertions THEN Panic(message)
               ELSE RunError(DefSpan, message)]
        /\ ctl' = [ctl EXCEPT ![t] = <<DataCallK(def, f, field, st, drift, made)>>]
        /\ UNCHANGED <<under_stack, call_stack, fills, array_depth, config, asm>>

\* the values a caller passes to a constructor
DataValues == {Num(1), Chr("a")}

DataStacks == SeqsUpTo(DataValues, MaxHeight)

\* the fields a definition may declare: no initializer, an initializer of no or of
\* two arguments, a validator alone, and an initializer with a validator
FieldKinds ==
    { [init |-> None, validator |-> FALSE], [init |-> Some(0), validator |-> FALSE],
      [init |-> Some(MaxN), validator |-> FALSE], [init |-> None, validator |-> TRUE],
      [init |-> Some(1), validator |-> TRUE] }

FieldNames == <<"A", "B", "C", "D">>

FieldLists ==
    { [i \in 1..Len(kinds) |-> DataField(FieldNames[i], kinds[i].init, kinds[i].validator)] :
        kinds \in SeqsUpTo(FieldKinds, MaxN) }

\* a boxed definition of MaskWidth + 1 fields: all but the first have an initializer
WideDef ==
    DataDef("Wide",
            DataFields(TRUE, [i \in 1..(MaskWidth + 1) |->
                                 DataField("F", IF i = 1 THEN None ELSE Some(0), FALSE)]),
            FALSE)

\* the definitions the host compiles
DataDefs ==
    { DataDef(name, fields, variant) :
        name \in {"", "Def"}, variant \in BOOLEAN,
        fields \in {None} \cup {DataFields(boxed, list) : boxed \in BOOLEAN, list \in FieldLists} }
    \cup {WideDef}

\* the host compiles one data definition from defs, at the top level of the scope
HostDataDef(t, defs) ==
    /\ t = MainInterpreter
    /\ ctl[t] = <<>>
    /\ res[t] = NotRun
    /\ compiler.failed = None
    /\ \E data \in defs :
          compiler' = data_def(compiler, data, TRUE, debug_assertions)
    /\ UNCHANGED <<stack, under_stack, call_stack, fills, array_depth, limits, now, hook,
                   allow_thread_spawning, runs, outputs, threads, asm, ctl, res>>

\* the host calls New of the last definition compiled, with some arguments on the stack
HostCallsNew(t) ==
    /\ t = MainInterpreter
    /\ ctl[t] = <<>>
    /\ res[t] = NotRun
    /\ compiler.compiled # <<>>
    /\ LET def == Len(compiler.compiled)
       IN  \E st \in DataStacks :
              CallsGenerated(t, def, compiler.compiled[def].new, 0, st, None)

\* the host calls a getter on the instance New left on the stack
HostCallsGetter(t) ==
    /\ At(t, "data_call")
    /\ Top(t).made = None
    /\ res[t] = Ok
    /\ stack[t] # <<>>
    /\ LET def == compiler.compiled[Top(t).def]
       IN  \E i \in 1..Len(def.fields) :
              CallsGenerated(t, Top(t).def, def.first_function + i, i, stack[t],
                             Some([pre |-> Top(t).pre, instance |-> Last(stack[t])]))

InitData ==
    \E debug \in BOOLEAN :
        InitState(<<>>, debug, None, None, DefaultRecursionLimit(debug), TRUE, FALSE, NoCli)

StepData(t) ==
    \/ compiler.compiled = <<>> /\ HostDataDef(t, DataDefs)
    \/ HostCallsNew(t)
    \/ HostCallsGetter(t)

NextData == \E t \in Interpreters : StepData(t)

SpecData == InitData /\ [][NextData]_vars

\* the definitions the host compiles in modules: a variant with a field and one
\* without a field list, a definition that is no variant, and a variant and another
\* definition without a name
ScopeDefs ==
    { DataDef("V", DataFields(FALSE, <<DataField("A", None, FALSE)>>), TRUE),
      DataDef("V", None, TRUE),
      DataDef("V", DataFields(FALSE, <<DataField("A", None, FALSE)>>), FALSE),
      DataDef("", None, TRUE),
      DataDef("", DataFields(FALSE, <<DataField("A", None, FALSE)>>), FALSE) }

\* the host enters a module: in_scope(ScopeKind::Module(name), ...) starts
HostOpensModule(t) ==
    /\ t = MainInterpreter
    /\ compiler.failed = None
    /\ Len(compiler.higher_scopes) < MaxN
    /\ compiler.scopes_made <= 2 * MaxN + 1
    /\ compiler' = EnterScope(compiler, "Module", "M")
    /\ UNCHANGED <<stack, under_stack, call_stack, fills, array_depth, limits, now, hook,
                   allow_thread_spawning, runs, outputs, threads, asm, ctl, res>>

\* the items of the module are compiled: in_scope returns and the module is bound
HostClosesModule(t) ==
    /\ t = MainInterpreter
    /\ compiler.failed = None
    /\ compiler.higher_scopes # <<>>
    /\ compiler' = [LeaveScope(compiler) EXCEPT
                       !.next_global = @ + 1,
                       !.bindings = Append(@, Bound(compiler.scope.name, compiler.next_global,
                                                    Last(compiler.higher_scopes).id))]
    /\ UNCHANGED <<stack, under_stack, call_stack, fills, array_depth, limits, now, hook,
                   allow_thread_spawning, runs, outputs, threads, asm, ctl, res>>

InitScopes ==
    \E debug \in BOOLEAN :
        InitState(<<>>, debug, None, None, DefaultRecursionLimit(debug), TRUE, FALSE, NoCli)

StepScopes(t) ==
    \/ compiler.defs <= MaxN /\ HostDataDef(t, ScopeDefs)
    \/ HostOpensModule(t)
    \/ HostClosesModule(t)

NextScopes == \E t \in Interpreters : StepScopes(t)

SpecScopes == InitScopes /\ [][NextScopes]_vars


(***************************************************************************)
(* The doc comment of New: the host compiles one definition whose fields   *)
(* have initializers of up to MaxArgs arguments.                           *)
(***************************************************************************)
MaxArgs == 11

DocFieldKinds ==
    {[init |-> None, validator |-> FALSE], [init |-> None, validator |-> TRUE]}
    \cup {[init |-> Some(a), validator |-> FALSE] : a \in 0..MaxArgs}

DocDefs ==
    { DataDef("Doc", DataFields(FALSE, [i \in 1..Len(kinds) |->
                                           DataField(FieldNames[i], kinds[i].init,
                                                     kinds[i].validator)]), FALSE) :
        kinds \in SeqsUpTo(DocFieldKinds, MaxN) \ {<<>>} }

InitDoc ==
    \E debug \in BOOLEAN :
        InitState(<<>>, debug, None, None, DefaultRecursionLimit(debug), TRUE, FALSE, NoCli)

StepDoc(t) == compiler.compiled = <<>> /\ HostDataDef(t, DocDefs)

NextDoc == \E t \in Interpreters : StepDoc(t)

SpecDoc == InitDoc /\ [][NextDoc]_vars

(***************************************************************************)
(* Deferred constants, called by the host again after a failure and called *)
(* by spawned children.                                                    *)
(***************************************************************************)
DeferredPrograms ==
    {CallGlobal(i) : i \in DOMAIN InitUnevaluated}
        \cup {Run(<<CallGlobal(i), CallGlobal(i)>>) : i \in DOMAIN InitUnevaluated}
        \cup {Run(<<Thread(CallGlobal(i), 0), Wait>>) : i \in DOMAIN InitUnevaluated}

InitDeferred ==
    \E debug \in BOOLEAN :
        InitState(<<>>, debug, None, None, DefaultRecursionLimit(debug), TRUE, FALSE, NoCli)

StepDeferred(t) ==
    \/ \E node \in DeferredPrograms : HostCallsExec(t, node)
    \/ ExecPush(t)
    \/ ExecRun(t)
    \/ RunStep(t)
    \/ ExecUnpack(t)
    \/ ExecArray(t)
    \/ ArrayAfter(t)
    \/ SpanPop(t)
    \/ ExecCallGlobal(t)
    \/ ConstAfter(t)
    \/ ExecSpawn(t)
    \/ ThreadEnd(t)
    \/ ExecWait(t)
    \/ WaitStep(t)
    \/ ExecTail(t)

NextDeferred == \E t \in Interpreters : StepDeferred(t)

SpecDeferred == InitDeferred /\ [][NextDeferred]_vars

(***************************************************************************)
(* Nodes that push frames and spans and build arrays, executed while the   *)
(* clock advances and the interrupt hook changes its answer.               *)
(***************************************************************************)
BalancePrograms ==
    { Array(Static(1), Call(FPush, 10), FALSE, 9),
      Array(Static(2), Run(<<Push(Num(1)), Array(Static(1), Push(Num(2)), FALSE, 9)>>), TRUE, 9),
      Array(Static(1), FailNode, FALSE, 9),
      Array(Static(1), Call(FDrift, 10), FALSE, 9),
      Call(FOuter, 10), Call(FTrackThenFail, 10),
      CallMacro(3, 11), CallGlobal(3), CallGlobal(9),
      BindGlobal(6, 17),
      Mod("with_fill", Chr("f"), Array(Static(1), Call(FFail, 10), FALSE, 9), 13) }

InitBalance ==
    \E debug \in BOOLEAN, limit \in {None, Some(1)}, hook_set \in {None, Some("hook")} :
        InitState(<<>>, debug, limit, hook_set, DefaultRecursionLimit(debug), TRUE, FALSE, NoCli)

StepBalance(t) ==
    \/ \E node \in BalancePrograms : HostExec(t, node)
    \/ ExecPush(t)
    \/ ExecRun(t)
    \/ RunStep(t)
    \/ ExecUnpack(t)
    \/ ExecArray(t)
    \/ ArrayAfter(t)
    \/ SpanPop(t)
    \/ ExecCall(t)
    \/ FrameAfter(t)
    \/ BoundaryPop(t)
    \/ FillPop(t)
    \/ ExecCallGlobal(t)
    \/ ExecCallMacro(t)
    \/ ExecBindGlobal(t)
    \/ ExecTrackCaller(t)
    \/ ExecMod(t)
    \/ ExecTail(t)

NextBalance ==
    \/ \E t \in Interpreters : StepBalance(t)
    \/ Tick
    \/ HookFlip

SpecBalance == InitBalance /\ [][NextBalance]_vars

(***************************************************************************)
(* The fill contexts: with_fill, with_unfill, without_fill, without_fill_but *)
(* and without_unfill_but around bodies that succeed, fail, call functions *)
(* and open further fill contexts, while the clock advances.               *)
(***************************************************************************)
FillScopeBodies ==
    { Push(Num(1)), FailNode, Call(FFill, 10), Call(FFail, 10),
      Mod("without_fill", Num(0), Mod("with_fill", Num(1), Call(FPush, 10), 15), 14),
      ModBut("without_fill_but", 1, Run(<<>>), Mod("with_unfill", Chr("u"), Call(FPush, 10), 15), 18),
      ModBut("without_fill_but", 2, Run(<<>>), Call(FFill, 10), 18),
      ModBut("without_fill_but", 1, FailNode, Push(Num(1)), 18),
      ModBut("without_unfill_but", 1, Run(<<>>), Mod("with_fill", Num(1), FailNode, 15), 18),
      ModBut("without_unfill_but", 1, Unpack(3, FALSE, 30), Push(Num(1)), 18) }

FillScopePrograms ==
    FillScopeBodies
        \cup {Mod(p, Chr("f"), body, 13) : p \in {"with_fill", "with_unfill"},
                                          body \in FillScopeBodies}
        \cup {Mod("with_fill", Chr("f"), Mod("with_unfill", Chr("u"), body, 16), 13) :
                 body \in FillScopeBodies}

InitFillScopes ==
    \E limit \in {None, Some(1)} :
        InitState(<<>>, FALSE, limit, None, DefaultRecursionLimit(FALSE), TRUE, FALSE, NoCli)

StepFillScopes(t) ==
    \/ \E node \in FillScopePrograms : HostExec(t, node)
    \/ ExecPush(t)
    \/ ExecRun(t)
    \/ RunStep(t)
    \/ ExecUnpack(t)
    \/ SpanPop(t)
    \/ ExecCall(t)
    \/ FrameAfter(t)
    \/ BoundaryPop(t)
    \/ FillPop(t)
    \/ UnfillPop(t)
    \/ ExecMod(t)
    \/ ExecModBut(t)
    \/ ButAfter(t)
    \/ ExecTail(t)

NextFillScopes ==
    \/ \E t \in Interpreters : StepFillScopes(t)
    \/ Tick

SpecFillScopes == InitFillScopes /\ [][NextFillScopes]_vars

(***************************************************************************)
(* An array built from the values on the stack and unpacked again, over    *)
(* stacks of numbers, characters, arrays and boxes.                        *)
(***************************************************************************)
RoundTripValues == StackValues \cup {BoxOf(Num(1)), ArrOf(TypeChar, <<Chr("a"), Chr("b")>>)}

RoundTripStacks == SeqsUpTo(RoundTripValues, MaxHeight)

\* Array{len: Static(n), boxed} over an empty node, then Unpack{count: n, unbox}
RoundTrip(n, boxed, unbox) ==
    Run(<<Array(Static(n), Run(<<>>), boxed, 9), Unpack(n, unbox, 4)>>)

RoundTripPrograms == {RoundTrip(n, b, b) : n \in 1..(MaxN + 1), b \in BOOLEAN}

InitRoundTrip ==
    \E stk \in RoundTripStacks :
        InitState(stk, FALSE, None, None, DefaultRecursionLimit(FALSE), TRUE, FALSE, NoCli)

StepRoundTrip(t) ==
    \/ \E node \in RoundTripPrograms : HostExec(t, node)
    \/ ExecRun(t)
    \/ RunStep(t)
    \/ ExecArray(t)
    \/ ArrayAfter(t)
    \/ SpanPop(t)
    \/ ExecUnpack(t)
    \/ ExecTail(t)

NextRoundTrip == \E t \in Interpreters : StepRoundTrip(t)

SpecRoundTrip == InitRoundTrip /\ [][NextRoundTrip]_vars

-----------------------------------------------------------------------------
(* Properties.                                                             *)

\* the node whose match has just finished in interpreter t, and the state it began in
Returning(t) == At(t, "tail")

IsOk(t) == res[t].kind = "Ok"

\* a Run of Push nodes
IsPushes(node) ==
    /\ node.k = "Run"
    /\ \A i \in 1..Len(node.nodes) : node.nodes[i].k = "Push"

PushedValues(node) == [i \in 1..Len(node.nodes) |-> node.nodes[i].val]

\* Run(<<first(k), PopUnder(k)>>)
IsUnderPair(node, first) ==
    /\ node.k = "Run"
    /\ Len(node.nodes) = 2
    /\ node.nodes[1].k = first
    /\ node.nodes[2].k = "PopUnder"
    /\ node.nodes[1].n = node.nodes[2].n

\* the top k values of a stack, bottom first
TopValues(st, k) == SubSeq(st, Len(st) - k + 1, Len(st))

C1Nodes ==
    {"Push", "PushUnder", "CopyToUnder", "PopUnder", "Unpack", "Format", "ValidateType",
     "Label", "RemoveLabel"}

C1Node(node) ==
    \/ node.k \in C1Nodes
    \/ node.k = "Array" /\ node.len.static /\ IsPushes(node.inner)

\* C1: a node among Push, PushUnder(n), CopyToUnder(n), PopUnder(n), Unpack, Format,
\* ValidateType, Label, RemoveLabel and Array{Static(n)} with signature (a, b), run on
\* a main stack of height at least a (and an under stack of height at least n for
\* PopUnder), leaves the main stack at the height before minus a plus b whenever it
\* returns Ok.
C1_HeightBySig ==
    \A t \in Interpreters :
        (/\ Returning(t)
         /\ C1Node(Top(t).node)
         /\ IsOk(t)
         /\ Len(Top(t).pre.stack) >= NodeSig(Top(t).node).args
         /\ (Top(t).node.k = "PopUnder" => Len(Top(t).pre.under) >= Top(t).node.n))
            => Len(stack[t]) =
                   Len(Top(t).pre.stack) - NodeSig(Top(t).node).args
                       + NodeSig(Top(t).node).outputs

C1_Witness ==
    \E t \in Interpreters :
        /\ Returning(t)
        /\ Top(t).node.k = "CopyToUnder"
        /\ Top(t).node.n = 2
        /\ IsOk(t)
        /\ Len(stack[t]) = 3

\* the continuations of exec_with_frame_span among ks
FrameCount(ks) == Cardinality({i \in 1..Len(ks) : ks[i].k = "frame"})

\* exec_with_frame_span is about to resume after a body that returned Ok having
\* changed the height by something else than its signature says
DriftPending(t) ==
    /\ At(t, "frame")
    /\ ~IsErr(res[t])
    /\ Len(stack[t]) - Top(t).start_height # Top(t).sig.outputs - Top(t).sig.args

\* C2: exec_with_frame_span never returns Ok when its body succeeded but changed the
\* main-stack height by an amount other than sig.outputs - sig.args: a release build
\* returns the "Function modified the stack by ..." error at the call span, a debug
\* build panics, and either way the frame it pushed is off the call stack.
C2_DriftNeverOk ==
    [][\A t \in Interpreters :
          (DriftPending(t) /\ ctl'[t] # ctl[t])
              => /\ IF debug_assertions
                    THEN res'[t].kind = "Panic"
                    ELSE /\ res'[t].kind = "Run"
                         /\ res'[t].span = Top(t).call_span
                         /\ res'[t].message =
                                DriftMessage(Len(stack[t]) - Top(t).start_height, Top(t).sig,
                                             Top(t).sig.outputs - Top(t).sig.args)
                 /\ call_stack'[t] = Front(call_stack[t])
                 /\ Len(call_stack'[t]) = 1 + FrameCount(Rest(t))]_vars

C2_Witness ==
    \E t \in Interpreters :
        /\ res[t].kind = "Run"
        /\ res[t].message = DriftMessage(2, Sig(0, 1), 1)
        /\ res[t].span = 10
        /\ ~debug_assertions
        /\ Len(call_stack[t]) = 1

\* C3: for every k not larger than the main-stack height, PushUnder(k) followed by
\* PopUnder(k) succeeds and leaves the main stack and the under stack exactly as they
\* were.
C3_PushPopUnderIdentity ==
    \A t \in Interpreters :
        (/\ Returning(t)
         /\ IsUnderPair(Top(t).node, "PushUnder")
         /\ Top(t).node.nodes[1].n <= Len(Top(t).pre.stack))
            => /\ IsOk(t)
               /\ stack[t] = Top(t).pre.stack
               /\ under_stack[t] = Top(t).pre.under

C3_Witness ==
    \E t \in Interpreters :
        /\ Returning(t)
        /\ IsUnderPair(Top(t).node, "PushUnder")
        /\ Top(t).node.nodes[1].n = 2
        /\ Top(t).pre.under # <<>>
        /\ Top(t).pre.stack = <<Num(1), Chr("a")>>
        /\ IsOk(t)

\* CopyToUnder(k) then PopUnder(k) has returned in interpreter t, k within the height
CopyPopReturned(t) ==
    /\ Returning(t)
    /\ IsUnderPair(Top(t).node, "CopyToUnder")
    /\ Top(t).node.nodes[1].n <= Len(Top(t).pre.stack)

\* C4 (as amended): for every k not larger than the main-stack height, CopyToUnder(k)
\* followed by PopUnder(k) leaves the original values in place, restores the under
\* stack, and pushes onto the main stack the same k values that were on top, in the
\* same order as they lie on the main stack.
C4_CopyPopUnderSameOrder ==
    \A t \in Interpreters :
        CopyPopReturned(t)
            => /\ IsOk(t)
               /\ stack[t] = Top(t).pre.stack
                                 \o TopValues(Top(t).pre.stack, Top(t).node.nodes[1].n)
               /\ under_stack[t] = Top(t).pre.under

\* C4 as stated: the k values are pushed in reverse of their order on the main stack.
C4_Original_ReverseOrder ==
    \A t \in Interpreters :
        CopyPopReturned(t)
            => /\ IsOk(t)
               /\ stack[t] = Top(t).pre.stack
                                 \o Reverse(TopValues(Top(t).pre.stack, Top(t).node.nodes[1].n))
               /\ under_stack[t] = Top(t).pre.under

C4_Witness ==
    \E t \in Interpreters :
        /\ CopyPopReturned(t)
        /\ Top(t).node.nodes[1].n = 2
        /\ stack[t] = <<Num(1), Chr("a"), Num(1), Chr("a")>>


\* Array{len: Static(n), boxed: false} over n Push nodes has returned in interpreter t
PushArrayReturned(t) ==
    /\ Returning(t)
    /\ Top(t).node.k = "Array"
    /\ Top(t).node.len.static
    /\ ~Top(t).node.boxed
    /\ IsPushes(Top(t).node.inner)
    /\ Top(t).node.len.len = Len(Top(t).node.inner.nodes)

\* C5 (as amended): Array{len: Static(n), boxed: false} whose inner node is the
\* sequence Push(v_0), ..., Push(v_{n-1}) executed in that order replaces, when it
\* returns Ok, those n values by one array whose rows are v_{n-1}, ..., v_0: row 0 is
\* the value pushed last; it returns Ok when the values agree in type and shape.
C5_ArrayRowsLastPushedFirst ==
    \A t \in Interpreters :
        PushArrayReturned(t)
            => /\ RowsAgree(PushedValues(Top(t).node.inner)) => IsOk(t)
               /\ IsOk(t)
                    => /\ Front(stack[t]) = Top(t).pre.stack
                       /\ ~Last(stack[t]).scalar
                       /\ Last(stack[t]).rows = Reverse(PushedValues(Top(t).node.inner))

\* C5 as stated: the rows are v_0, ..., v_{n-1}, row 0 being v_0.
C5_Original_RowsInPushOrder ==
    \A t \in Interpreters :
        (PushArrayReturned(t) /\ IsOk(t))
            => /\ Front(stack[t]) = Top(t).pre.stack
               /\ ~Last(stack[t]).scalar
               /\ Last(stack[t]).rows = PushedValues(Top(t).node.inner)

C5_Witness ==
    \E t \in Interpreters :
        /\ PushArrayReturned(t)
        /\ IsOk(t)
        /\ PushedValues(Top(t).node.inner) = <<Num(1), Num(2)>>
        /\ Last(stack[t]).rows = <<Num(2), Num(1)>>
        /\ Len(stack[t]) = 2

\* row i (counted from 0) of arr as Unpack pushes it
UnpackedRow(arr, i, unbox) ==
    IF unbox THEN unboxed(into_rows(arr)[i + 1]) ELSE into_rows(arr)[i + 1]

\* C6: Unpack{count} pops one array; if its row count differs from count it fails and
\* pushes nothing; otherwise it pushes all rows so that row 0 ends up on top of the
\* stack and the last row deepest, and the height grows by count - 1.
C6_UnpackRowZeroOnTop ==
    \A t \in Interpreters :
        (/\ Returning(t)
         /\ Top(t).node.k = "Unpack"
         /\ Top(t).pre.stack # <<>>)
            => LET arr == Last(Top(t).pre.stack)
                   count == Top(t).node.count
               IN  IF row_count(arr) # count
                   THEN /\ IsErr(res[t])
                        /\ stack[t] = Front(Top(t).pre.stack)
                   ELSE /\ IsOk(t)
                        /\ Len(stack[t]) = Len(Top(t).pre.stack) + count - 1
                        /\ Truncate(stack[t], Len(Top(t).pre.stack) - 1) = Front(Top(t).pre.stack)
                        /\ \A i \in 0..(count - 1) :
                               stack[t][Len(stack[t]) - i] = UnpackedRow(arr, i, Top(t).node.unbox)

C6_Witness ==
    \E t \in Interpreters :
        /\ Returning(t)
        /\ Top(t).node.k = "Unpack"
        /\ Top(t).node.count = 2
        /\ IsOk(t)
        /\ stack[t] = <<Chr("a"), Num(2), Num(1)>>

\* the innermost of the with_fill / with_unfill / without_fill scopes still open in
\* ks (innermost continuation first) among the kinds given: its kind, "" if none
RECURSIVE InnermostScope(_, _)
InnermostScope(ks, kinds) ==
    IF ks = <<>> THEN ""
    ELSE IF Head(ks).k \in kinds THEN Head(ks).k
    ELSE InnermostScope(Tail(ks), kinds)

\* C7: while the body of without_fill runs and no with_fill (with_unfill) has been
\* entered inside it, value_fill() (value_unfill()) returns None, however many values
\* fill_stack and unfill_stack held when the boundary was pushed; once without_fill
\* has returned, both return what they returned before it was entered.
C7_BoundaryMasksFills ==
    \A t \in Interpreters :
        /\ InnermostScope(ctl[t], {"boundary", "fill"}) = "boundary" => value_fill(t) = None
        /\ InnermostScope(ctl[t], {"boundary", "unfill"}) = "boundary" => value_unfill(t) = None
        /\ (/\ Returning(t)
            /\ Top(t).node.k = "Mod"
            /\ Top(t).node.prim = "without_fill")
               => /\ value_fill(t) = Top(t).pre.vf
                  /\ value_unfill(t) = Top(t).pre.vuf

C7_Witness ==
    \E t \in Interpreters :
        /\ InnermostScope(ctl[t], {"boundary", "fill", "unfill"}) = "boundary"
        /\ At(t, "exec")
        /\ ctl[t][2].k = "boundary"
        /\ Len(fill_stack[t]) = 1
        /\ Len(unfill_stack[t]) = 1
        /\ value_fill(t) = None
        /\ value_unfill(t) = None


\* interpreter t is about to execute the body of a function called through
\* call_with_span (the frame on top of the call stack carries the function's id)
AtFunctionBody(t) ==
    /\ At(t, "exec")
    /\ Len(ctl[t]) >= 2
    /\ ctl[t][2].k = "frame"
    /\ Last(call_stack[t]).id # None

\* interpreter t is about to execute the operand of with_fill, inside a function body
AtWithFillBody(t) ==
    /\ At(t, "exec")
    /\ Len(ctl[t]) >= 4
    /\ ctl[t][2].k = "fill"
    /\ FrameCount(ctl[t]) >= 1

\* Call, CallMacro, or CallGlobal of a function binding has returned in interpreter t
CallReturned(t) ==
    /\ Returning(t)
    /\ \/ Top(t).node.k \in {"Call", "CallMacro"}
       \/ Top(t).node.k = "CallGlobal" /\ Top(t).pre.binding.kind = "Func"

\* C8: at entry to the body of a function invoked through Call, CallGlobal (function
\* binding) or CallMacro, value_fill() returns None whatever fills the caller had
\* installed; a with_fill(v) entered inside that body makes value_fill() return v; and
\* after the call has returned (Ok or Err) the caller's value_fill() is what it was
\* before the call.
C8_CallMasksCallerFill ==
    \A t \in Interpreters :
        /\ AtFunctionBody(t) => value_fill(t) = None
        /\ AtWithFillBody(t) => value_fill(t) = Some(ctl[t][4].node.val)
        /\ CallReturned(t) => value_fill(t) = Top(t).pre.vf

C8_Witness ==
    \E t \in Interpreters :
        /\ AtWithFillBody(t)
        /\ fill_stack[t] = <<Chr("f"), Num(2)>>
        /\ value_fill(t) = Some(Num(2))

\* the trace of an error that left the chain of calls FOuter -> FMid -> FFail through
\* function f called at span
ChainTrace(f, span) ==
    CASE f = FFail -> <<TraceFrame(Some("FFail"), span)>>
      [] f = FMid -> <<TraceFrame(Some("FFail"), 31), TraceFrame(Some("FMid"), span)>>
      [] f = FOuter ->
            << TraceFrame(Some("FFail"), 31), TraceFrame(Some("FMid"), 32),
               TraceFrame(Some("FOuter"), span) >>

\* exec_with_frame_span resumes in interpreter t after a body that failed
FailedBodyReturns(t) ==
    /\ At(t, "frame")
    /\ IsErr(res[t])
    /\ ctl'[t] # ctl[t]

\* C9: when the body run by exec_with_frame_span fails: if the popped frame's
\* track_caller flag is set, the error gets the frame's call span as caller override
\* and no TraceFrame is appended; otherwise exactly one TraceFrame{id, call span} is
\* appended, so an error unwinding through k frames with no TrackCaller carries k trace
\* frames, innermost call first.
C9_TraceOrCallerOverride ==
    /\ [][\A t \in Interpreters :
            FailedBodyReturns(t)
                => LET frame == Last(call_stack[t])
                   IN  IF frame.track_caller
                       THEN /\ res'[t].caller = Some(frame.call_span)
                            /\ res'[t].trace = res[t].trace
                       ELSE /\ res'[t].trace =
                                   Append(res[t].trace, TraceFrame(frame.id, frame.call_span))
                            /\ res'[t].caller = res[t].caller]_vars
    /\ [](\A t \in Interpreters :
            (/\ Returning(t)
             /\ Top(t).node.k = "Call"
             /\ Top(t).node.f \in {FFail, FMid, FOuter})
                => /\ IsErr(res[t])
                   /\ res[t].trace = ChainTrace(Top(t).node.f, Top(t).node.span)
                   /\ res[t].caller = None)

C9_Witness ==
    \E t \in Interpreters :
        /\ ctl[t] = <<>>
        /\ IsErr(res[t])
        /\ res[t].trace = ChainTrace(FOuter, 10)

\* CallGlobal(i) of a constant that the assembly deferred has returned in interpreter t
DeferredReturned(t) ==
    /\ Returning(t)
    /\ Top(t).node.k = "CallGlobal"
    /\ Top(t).node.index \in DOMAIN InitUnevaluated

\* C10: for a binding i that is Const(None) with an entry in unevaluated_constants,
\* over any sequence of CallGlobal(i) on one interpreter the deferred node is executed
\* exactly once, by the first call, which (when it returns Ok) has pushed its value v
\* and stored Const(Some v); every later CallGlobal(i) pushes the same v without
\* executing the node again.
C10_DeferredConstantOnce ==
    \A t \in Interpreters :
        /\ \A i \in DOMAIN evals[t] : evals[t][i] <= 1
        /\ DeferredReturned(t)
               => LET i == Top(t).node.index
                      before == Top(t).pre
                  IN  /\ evals[t][i] = 1
                      /\ i \notin DOMAIN unevaluated_constants[t]
                      /\ bindings[t][i].kind = "Const"
                      /\ (before.evaluated = 0 /\ IsOk(t)) =>
                            /\ bindings[t][i].val # None
                            /\ stack[t] = Append(before.stack, bindings[t][i].val[1])
                      /\ before.evaluated = 1 =>
                            /\ IsOk(t)
                            /\ bindings[t][i] = before.binding
                            /\ bindings[t][i].val # None
                            /\ stack[t] = Append(before.stack, bindings[t][i].val[1])

\* what the code keeps of C10: the deferred node is executed at most once; a call that
\* returns Ok has pushed the stored value; a call that finds Const(Some v) pushes v and
\* stores nothing
C10_AtMostOnceAndStable ==
    \A t \in Interpreters :
        /\ \A i \in DOMAIN evals[t] : evals[t][i] <= 1
        /\ DeferredReturned(t)
               => LET i == Top(t).node.index
                      before == Top(t).pre
                  IN  /\ evals[t][i] = 1
                      /\ i \notin DOMAIN unevaluated_constants[t]
                      /\ bindings[t][i].kind = "Const"
                      /\ IsOk(t) =>
                            /\ bindings[t][i].val # None
                            /\ stack[t] = Append(before.stack, bindings[t][i].val[1])
                      /\ before.binding.val # None =>
                            /\ IsOk(t)
                            /\ bindings[t][i] = before.binding

\* a later CallGlobal(i) of a deferred constant whose node failed in the first call: the
\* entry is gone, the binding is still Const(None), and the call fails
C10_LostConstant ==
    \E t \in Interpreters :
        /\ DeferredReturned(t)
        /\ Top(t).pre.evaluated = 1
        /\ Top(t).pre.binding.val = None
        /\ res[t] = RunError(0, "Called unbound constant. This is a bug in the interpreter.")

C10_Witness ==
    \E t \in Interpreters :
        /\ Returning(t)
        /\ Top(t).node = CallGlobal(1)
        /\ Top(t).pre.binding.val # None
        /\ evals[t][1] = 1
        /\ Len(stack[t]) = 3
        /\ stack[t][1] = stack[t][3]


\* interpreter t is about to call a function through Call, CallGlobal or CallMacro
IsFunctionCall(t) ==
    \/ AtExec(t, "Call")
    \/ /\ AtExec(t, "CallGlobal") \/ AtExec(t, "CallMacro")
       /\ Top(t).node.index \in DOMAIN bindings[t]
       /\ bindings[t][Top(t).node.index].kind = "Func"

\* the call that interpreter t is about to make fails on the recursion limit and pushes
\* no frame
CallStoppedByLimit(t) ==
    /\ Len(call_stack'[t]) = Len(call_stack[t])
    /\ res'[t] = error(t, RecursionLimitMessage(t))

\* C11: the recursion limit is checked at every function call: any call made through
\* Call, CallGlobal (function binding) or CallMacro while call_stack is longer than
\* recursion_limit fails with 'Recursion limit reached' and pushes no frame, so the
\* length of call_stack is bounded by the limit in every reachable state (it never
\* exceeds recursion_limit + 1, the length at which the check starts to fail).
C11_RecursionLimitAtEveryCall ==
    /\ [](\A t \in Interpreters : Len(call_stack[t]) <= recursion_limit[t] + 1)
    /\ [][\A t \in Interpreters :
            (/\ IsFunctionCall(t)
             /\ Len(call_stack[t]) > recursion_limit[t]
             /\ ctl'[t] # ctl[t])
                => CallStoppedByLimit(t)]_vars

\* what the code keeps of C11: a CallGlobal of a function binding made while call_stack
\* is longer than recursion_limit fails and pushes no frame
C11_GlobalCallsRespectLimit ==
    [][\A t \in Interpreters :
          (/\ IsFunctionCall(t)
           /\ AtExec(t, "CallGlobal")
           /\ Len(call_stack[t]) > recursion_limit[t]
           /\ ctl'[t] # ctl[t])
              => CallStoppedByLimit(t)]_vars

\* a call through Call or CallMacro has pushed a frame on a call stack that was already
\* longer than the recursion limit
C11_FrameBeyondLimit ==
    \E t \in Interpreters : Len(call_stack[t]) > recursion_limit[t] + 1

\* exec_impl returns in this step of interpreter t
ExitsNode(t) ==
    /\ ctl[t] # <<>>
    /\ Top(t).k \in {"exec", "tail"}
    /\ ctl'[t] = Rest(t)

\* the execution limit of interpreter t is set and exceeded
TimeIsUp(t) ==
    /\ execution_limit[t] # None
    /\ now - execution_start[t] > execution_limit[t][1]

\* the interrupt hook of interpreter t is set and answers true
HookSaysStop(t) == interrupted[t] # None /\ hook

\* C12: after every node that exec_impl executes, of every variant and on every exit
\* path, the limits are checked: if an execution limit is set and now minus
\* execution_start is greater than it, exec returns Timeout; otherwise if an interrupt
\* hook is set and returns true, exec returns Interrupted; and a Run sequence executes
\* no further node after one of its nodes has returned an error.
C12_LimitsAfterEveryNode ==
    /\ [][\A t \in Interpreters :
            ExitsNode(t)
                => /\ TimeIsUp(t) => res'[t] = TimeoutError(span_index(t))
                   /\ (~TimeIsUp(t) /\ HookSaysStop(t)) => res'[t] = InterruptedError]_vars
    /\ [][\A t \in Interpreters :
            (At(t, "run") /\ IsErr(res[t]) /\ ctl'[t] # ctl[t]) => ctl'[t] = Rest(t)]_vars

\* what the code keeps of C12: the limits are checked whenever exec_impl gets past its
\* match, and a Run sequence stops at the first error
C12_LimitsAfterMatch ==
    /\ [][\A t \in Interpreters :
            (ExitsNode(t) /\ At(t, "tail"))
                => /\ TimeIsUp(t) => res'[t] = TimeoutError(span_index(t))
                   /\ (~TimeIsUp(t) /\ HookSaysStop(t)) => res'[t] = InterruptedError]_vars
    /\ [][\A t \in Interpreters :
            (At(t, "run") /\ IsErr(res[t]) /\ ctl'[t] # ctl[t]) => ctl'[t] = Rest(t)]_vars

-----------------------------------------------------------------------------
(* run_asm and the thread subsystem.                                       *)

\* the step is the return of run_asm on interpreter t
RunAsmReturns(t) == At(t, "run_asm") /\ ctl'[t] = <<>>

\* s is a prefix of r
IsPrefix(s, r) == Len(s) <= Len(r) /\ SubSeq(r, 1, Len(s)) = s

\* C13: when run_asm returns an error, the runtime has empty main, under, fill, unfill
\* and boundary stacks, a call stack of the Main frame alone and no registered child,
\* while the backend, execution_limit, time_instrs, output_comments and the reports
\* are kept (the reports with the summary of the test assertions, if the root has
\* any); when run_asm returns Ok, none of this is reset and the main stack is kept.
C13_ResetOnErrorOnly ==
    [][\A t \in Interpreters :
          RunAsmReturns(t) =>
              /\ allow_thread_spawning' = allow_thread_spawning
              /\ execution_limit'[t] = execution_limit[t]
              /\ time_instrs'[t] = time_instrs[t]
              /\ output_comments'[t] = output_comments[t]
              /\ IsPrefix(reports[t], reports'[t])
              /\ total_assert_tests(Top(t).root) = 0 => reports'[t] = reports[t]
              /\ IF IsErr(res'[t])
                 THEN /\ stack'[t] = <<>>
                      /\ under_stack'[t] = <<>>
                      /\ fill_stack'[t] = <<>>
                      /\ unfill_stack'[t] = <<>>
                      /\ fill_boundary_stack'[t] = <<>>
                      /\ call_stack'[t] = <<MainFrame>>
                      /\ DOMAIN thread'[t].children = {}
                 ELSE /\ res'[t] = Ok
                      /\ stack'[t] = stack[t]
                      /\ under_stack'[t] = under_stack[t]
                      /\ fill_stack'[t] = fill_stack[t]
                      /\ unfill_stack'[t] = unfill_stack[t]
                      /\ fill_boundary_stack'[t] = fill_boundary_stack[t]
                      /\ call_stack'[t] = call_stack[t]
                      /\ thread'[t] = thread[t]
                      /\ recursion_limit'[t] = recursion_limit[t]
                      /\ interrupted'[t] = interrupted[t]]_vars

\* the first run_asm has returned an error after it had set output comments, summed
\* up its test assertions and spawned a child: the child is no longer registered
C13_Witness ==
    /\ runs = 1
    /\ ctl[MainInterpreter] = <<>>
    /\ IsErr(res[MainInterpreter])
    /\ spawned # {}
    /\ DOMAIN thread[MainInterpreter].children = {}
    /\ stack[MainInterpreter] = <<>>
    /\ DOMAIN output_comments[MainInterpreter] # {}
    /\ reports[MainInterpreter] # <<>>
    /\ time_instrs[MainInterpreter]
    /\ execution_limit[MainInterpreter] = Some(1)

\* the step is interpreter t running spawn
Spawns(t) == AtExec(t, "Spawn") /\ ctl'[t] # ctl[t]

\* the number of values the spawn at the top of t's continuations captures
CaptureCount(t) == Top(t).node.sn.sig.args

\* spawn is refused: the backend forbids it or the stack is too low
SpawnRefused(t) == ~allow_thread_spawning \/ Len(stack[t]) < CaptureCount(t)

\* the step fails and leaves the stack and ThisThread of t as they were
SpawnLeavesParent(t) ==
    /\ IsErr(res'[t])
    /\ stack'[t] = stack[t]
    /\ thread'[t] = thread[t]
    /\ spawned' = spawned

\* the step moves the top CaptureCount(t) values of t's stack, in their order, to the
\* stack of a new child and pushes the child's id
SpawnMovesCaptured(t) ==
    LET n == CaptureCount(t)
        st == stack[t]
        id == thread[t].next_child_id
    IN  /\ res'[t] = Ok
        /\ DOMAIN thread'[t].children = DOMAIN thread[t].children \cup {id}
        /\ thread'[t].children[id] \notin spawned
        /\ stack'[thread'[t].children[id]] = SubSeq(st, Len(st) - n + 1, Len(st))
        /\ stack'[t] = Append(SubSeq(st, 1, Len(st) - n), Num(id))

\* C14 as the spec states it: spawn fails and changes nothing of the parent when the
\* backend forbids spawning or the stack is too low, and in every other case moves the
\* captured values to the child and pushes the new id.
C14_Original_SpawnFailsOrMoves ==
    [][\A t \in Interpreters :
          Spawns(t) => IF SpawnRefused(t) THEN SpawnLeavesParent(t)
                       ELSE SpawnMovesCaptured(t)]_vars

\* C14: spawn fails and leaves the parent's stack, children and next_child_id unchanged
\* when the backend forbids spawning or the stack holds fewer than capture_count values.
\* Otherwise the top capture_count values leave the parent's stack; if the thread was
\* started they are the child's initial stack, in the same order, and the new id is
\* pushed; if the thread could not be started, spawn fails, the values are gone and
\* no child is registered nor id consumed.
C14_SpawnFailsMovesOrLoses ==
    [][\A t \in Interpreters :
          Spawns(t) =>
              IF SpawnRefused(t) THEN SpawnLeavesParent(t)
              ELSE IF IsErr(res'[t])
              THEN /\ res'[t].message = "Error spawning thread"
                   /\ ~Top(t).node.pool
                   /\ stack'[t] = SubSeq(stack[t], 1, Len(stack[t]) - CaptureCount(t))
                   /\ thread'[t] = thread[t]
                   /\ spawned' = spawned
              ELSE SpawnMovesCaptured(t)]_vars

\* a child was spawned with two captured values, which are its stack in the parent's order
C14_Witness ==
    \E u \in spawned :
        /\ ctl[u] = <<ExecK(Leave), ThreadK>>
        /\ stack[u] = <<Num(3), Num(4)>>
        /\ stack[MainInterpreter] = <<Num(1)>>

\* the sequence 1, 2, .., k
UpTo(k) == [i \in 1..k |-> i]

\* C15 as the spec states it: on one interpreter the k-th successful spawn pushes id k,
\* so that the ids it has handed out are 1, 2, .., each once.
C15_Original_IdsNeverRepeat ==
    \A t \in Interpreters : sent[t].ids = UpTo(Len(sent[t].ids))

\* C15: on one interpreter, the k-th successful spawn since the runtime was constructed
\* or last reset by a failed run_asm pushes child id k, whatever waits happened in
\* between; the registered ids are among those, so 0 is never a child id, and the next
\* id is one more than the last.
C15_IdsCountFromLastReset ==
    \A t \in Interpreters :
        /\ sent[t].run_ids = UpTo(Len(sent[t].run_ids))
        /\ thread[t].next_child_id = Len(sent[t].run_ids) + 1
        /\ DOMAIN thread[t].children \subseteq 1..Len(sent[t].run_ids)

\* the host's interpreter has spawned twice with a wait in between, and waited for its
\* first child only
C15_Witness ==
    /\ sent[MainInterpreter].run_ids = <<1, 2>>
    /\ DOMAIN thread[MainInterpreter].children = {2}
    /\ stack[MainInterpreter] = <<Num(7), Num(2)>>

\* interpreter t is about to look up child id: wait at its next handle, recv at its
\* next id, send and try_recv with the scalar id on top of the stack
Naming(t, id) ==
    \/ At(t, "wait") /\ Top(t).handles # <<>> /\ Head(Top(t).handles) = id
    \/ At(t, "recv") /\ Top(t).ids # <<>> /\ Head(Top(t).ids) = id
    \/ /\ AtExec(t, "Prim")
       /\ \/ Top(t).node.prim = "try_recv" /\ Len(stack[t]) >= 1
          \/ Top(t).node.prim = "send" /\ Len(stack[t]) >= 2
       /\ Last(stack[t]) = Num(id)

\* the step of t returns the error 'Invalid thread id'
FailsInvalid(t) ==
    /\ ctl'[t] # ctl[t]
    /\ res'[t].kind = "Run"
    /\ res'[t].message = "Invalid thread id"

\* the step is t's wait getting the result of the registered child id
WaitTakes(t, id) ==
    /\ At(t, "wait")
    /\ Top(t).handles # <<>>
    /\ Head(Top(t).handles) = id
    /\ id \in DOMAIN thread[t].children
    /\ ctl'[t] # ctl[t]

\* C16 as the spec states it: once wait has removed child id, every wait, send, recv or
\* try_recv naming the same id fails with 'Invalid thread id'.
C16_Original_WaitedIdInvalidForEver ==
    [][\A t \in Interpreters : \A id \in sent[t].waited :
          Naming(t, id) /\ ctl'[t] # ctl[t] => FailsInvalid(t)]_vars

\* C16: wait(id) removes child id from the registered children whether the child ended
\* with Ok, with an error or with a panic; from then on, and until a spawn hands the
\* same id out again (which takes a reset of the runtime by a failed run_asm), every
\* wait, send, recv or try_recv naming the id fails with 'Invalid thread id'.
C16_WaitedIdInvalidUntilReused ==
    /\ [][\A t \in Interpreters : \A id \in DOMAIN thread[t].children :
             WaitTakes(t, id) => /\ id \notin DOMAIN thread'[t].children
                                 /\ id \in sent'[t].gone]_vars
    /\ [][\A t \in Interpreters : \A id \in sent[t].gone :
             Naming(t, id) /\ ctl'[t] # ctl[t] => FailsInvalid(t)]_vars
    /\ [](\A t \in Interpreters :
             /\ sent[t].gone \cap DOMAIN thread[t].children = {}
             /\ sent[t].run_ids # <<>> /\ sent[t].waited \cap DOMAIN thread[t].children # {}
                    => Len(sent[t].ids) > Len(sent[t].run_ids))

\* the host's interpreter has waited for child 1, whose body failed, and its send to
\* id 1 has just returned 'Invalid thread id'
C16_Witness ==
    /\ 1 \in sent[MainInterpreter].gone
    /\ At(MainInterpreter, "tail")
    /\ Top(MainInterpreter).node.k = "Prim"
    /\ Top(MainInterpreter).node.prim = "send"
    /\ res[MainInterpreter].message = "Invalid thread id"
    /\ \E u \in spawned : result[u].state = "taken" /\ IsErr(result[u].res)

\* the result the thread of child id of t has sent: it returned Ok with a final stack
ChildSucceeded(t, id) ==
    /\ result[thread[t].children[id]].state = "sent"
    /\ result[thread[t].children[id]].res = Ok

\* the program that spawns a thread capturing one value and leaving it, then waits
IsRoundTrip(node) ==
    /\ node.k = "Run"
    /\ Len(node.nodes) = 2
    /\ node.nodes[1].k = "Spawn"
    /\ node.nodes[1].sn = SigNode(Leave, Sig(1, 1))
    /\ node.nodes[2] = Wait

\* C17: a wait on a scalar id of a child that finished successfully appends the
\* child's whole final stack, in order, to the parent's stack and changes no other
\* stack of the parent; a spawn that captures one value V and leaves it, followed by a
\* wait, leaves the parent's stack as it was, V on top.
C17_ScalarWaitExtendsStack ==
    /\ [][\A t \in Interpreters : \A id \in DOMAIN thread[t].children :
             WaitTakes(t, id) /\ Top(t).shape = <<>> /\ ~Top(t).implicit
                 /\ ChildSucceeded(t, id)
             => /\ res'[t] = Ok
                /\ stack'[t] = stack[t] \o result[thread[t].children[id]].stack
                /\ under_stack'[t] = under_stack[t]
                /\ fill_stack'[t] = fill_stack[t]
                /\ unfill_stack'[t] = unfill_stack[t]
                /\ fill_boundary_stack'[t] = fill_boundary_stack[t]
                /\ call_stack'[t] = call_stack[t]]_vars
    /\ [](\A t \in Interpreters :
             At(t, "tail") /\ IsRoundTrip(Top(t).node) /\ IsOk(t)
             => /\ stack[t] = Top(t).pre.stack
                /\ under_stack[t] = Top(t).pre.under)

\* the host's interpreter has spawned a thread with the captured 4, waited for it, and
\* has 4 back on top of 3
C17_Witness ==
    /\ At(MainInterpreter, "tail")
    /\ IsRoundTrip(Top(MainInterpreter).node)
    /\ IsOk(MainInterpreter)
    /\ sent[MainInterpreter].waited = {1}
    /\ stack[MainInterpreter] = <<Num(3), Num(4)>>
    /\ \E u \in spawned : result[u] = [state |-> "taken", res |-> Ok, stack |-> <<Num(4)>>]

\* interpreter t has left the closure of a wait whose argument was a list of ids
WaitListDone(t) ==
    /\ At(t, "tail")
    /\ Top(t).node.k = "Prim"
    /\ Top(t).node.prim = "wait"
    /\ Top(t).pre.stack # <<>>
    /\ ~Last(Top(t).pre.stack).scalar
    /\ as_natural_array(Last(Top(t).pre.stack)).ok

\* the ids that wait was given
WaitedIds(t) == as_natural_array(Last(Top(t).pre.stack)).data

\* the interpreter that id named when the wait began
WaitedSlot(t, id) == Top(t).pre.children[id]

\* every id named a registered child, and the wait has taken every child's Ok result
AllSucceeded(t) ==
    \A j \in DOMAIN WaitedIds(t) :
        /\ WaitedIds(t)[j] \in DOMAIN Top(t).pre.children
        /\ result[WaitedSlot(t, WaitedIds(t)[j])].state = "taken"
        /\ result[WaitedSlot(t, WaitedIds(t)[j])].res = Ok

\* the final stacks of the children named, in the order of the ids
FinalStacks(t) ==
    [j \in DOMAIN WaitedIds(t) |-> result[WaitedSlot(t, WaitedIds(t)[j])].stack]

\* the row made of a final stack: its value if it holds exactly one, else the array of
\* its values
RowOf(thread_stack) ==
    IF Len(thread_stack) = 1 THEN thread_stack[1] ELSE from_row_values(thread_stack)

\* the wait pushed one value, whose shape begins with the shape of ids and whose rows
\* are made of the final stacks
PushedRows(t) ==
    /\ IsOk(t)
    /\ Len(stack[t]) = Len(Top(t).pre.stack)
    /\ Front(stack[t]) = Front(Top(t).pre.stack)
    /\ LET val == Last(stack[t])
           s == Shape(Last(Top(t).pre.stack))
       IN  /\ Len(Shape(val)) >= Len(s)
           /\ SubSeq(Shape(val), 1, Len(s)) = s
           /\ val.rows = [j \in DOMAIN FinalStacks(t) |-> RowOf(FinalStacks(t)[j])]

\* C18 as the spec states it: a wait on a list of ids that all name registered children
\* that finish successfully pushes exactly one value, of a shape that begins with the
\* shape of the ids, row j made of the final stack of the j-th id.
C18_Original_ListWaitPushesRows ==
    \A t \in Interpreters : WaitListDone(t) /\ AllSucceeded(t) => PushedRows(t)

\* no id occurs twice
Distinct(ids) == \A i, j \in DOMAIN ids : i # j => ids[i] # ids[j]

\* the rows agree in type and shape, so that they are the rows of one array
Stackable(stacks) ==
    /\ \A j \in DOMAIN stacks : Len(stacks[j]) = 1 \/ RowsAgree(stacks[j])
    /\ RowsAgree([j \in DOMAIN stacks |-> RowOf(stacks[j])])

\* C18: a wait on a list of distinct ids that all name registered children that finish
\* successfully, whose rows (the single value of a final stack of one value, the array
\* of the values of any other) agree in type and shape, pushes exactly one value, of a
\* shape that begins with the shape of the ids, row j made of the final stack of the
\* j-th id.  If the rows do not agree, or an id occurs twice, the wait fails and pushes
\* nothing; the children it has taken are no longer registered.
C18_ListWaitPushesAgreeingRows ==
    \A t \in Interpreters :
        WaitListDone(t) /\ AllSucceeded(t) =>
            /\ \A j \in DOMAIN WaitedIds(t) : WaitedIds(t)[j] \notin DOMAIN thread[t].children
            /\ IF Distinct(WaitedIds(t)) /\ Stackable(FinalStacks(t))
               THEN PushedRows(t)
               ELSE /\ IsErr(res[t])
                    /\ stack[t] = Front(Top(t).pre.stack)
                    /\ ~Distinct(WaitedIds(t)) => res[t].message = "Invalid thread id"

\* the host's interpreter has waited for the ids 2 and 1, whose threads left 8 and 7,
\* and has pushed the list 8 7
C18_Witness ==
    /\ WaitListDone(MainInterpreter)
    /\ AllSucceeded(MainInterpreter)
    /\ WaitedIds(MainInterpreter) = <<2, 1>>
    /\ IsOk(MainInterpreter)
    /\ Last(stack[MainInterpreter]) = ArrOf(TypeNum, <<Num(8), Num(7)>>)

\* interpreter t is blocked in, or about to take, a wait on the scalar id of child u
WaitingFor(t, u) ==
    /\ At(t, "wait")
    /\ Top(t).shape = <<>>
    /\ ~Top(t).implicit
    /\ Top(t).handles # <<>>
    /\ Head(Top(t).handles) \in DOMAIN thread[t].children
    /\ thread[t].children[Head(Top(t).handles)] = u

\* the root node of child u has returned Ok or an error
RootReturned(u) ==
    \/ At(u, "thread") /\ res[u].kind # "Panic"
    \/ result[u].state = "sent"

\* the wait of t has returned what child u ended with: Ok with u's final stack on top
\* of t's, or u's own error
WaitReturned(t, u) ==
    /\ result[u].state = "taken"
    /\ res[t] = result[u].res
    /\ IsOk(t) => /\ Len(stack[t]) >= Len(result[u].stack)
                  /\ DrainFrom(stack[t], Len(stack[t]) - Len(result[u].stack)) = result[u].stack

\* C19: under fair scheduling, a wait on the id of a child whose root node has returned
\* or errored eventually returns: Ok with the child's final stack when the child
\* returned, the child's own error when it errored.
C19_WaitReturnsAfterChildEnds ==
    \A t \in Interpreters : \A u \in Interpreters \ {MainInterpreter} :
        (WaitingFor(t, u) /\ RootReturned(u)) ~> WaitReturned(t, u)

\* the host's wait has returned the error of its child, whose body failed
C19_Witness ==
    \E u \in spawned :
        /\ WaitReturned(MainInterpreter, u)
        /\ IsErr(result[u].res)
        /\ At(MainInterpreter, "span")

\* the step is t's recv or try_recv finding a channel closed: its implicit wait begins
ReportsClosed(t) ==
    /\ ~At(t, "wait")
    /\ ctl'[t] # <<>>
    /\ Head(ctl'[t]).k = "wait"
    /\ Head(ctl'[t]).implicit

\* every value sent towards t on the channel id names has been received
AllDelivered(t, id) ==
    IF id = 0
    THEN sent[t].down_received = sent[t].down_sent
    ELSE LET u == thread[t].children[id]
         IN  sent[u].up_received = sent[u].up_sent

TryRecvOn(t, id) ==
    /\ AtExec(t, "Prim")
    /\ Top(t).node.prim = "try_recv"
    /\ stack[t] # <<>>
    /\ Last(stack[t]) = Num(id)
    /\ ctl'[t] # ctl[t]

\* id names a channel of t: the one to its parent, or the one to a registered child
HasChannel(t, id) ==
    IF id = 0 THEN thread[t].parent ELSE id \in DOMAIN thread[t].children

\* the values sent towards t on the channel id names and not received yet, oldest first
Unreceived(t, id) ==
    LET u == IF id = 0 THEN t ELSE thread[t].children[id]
        all == IF id = 0 THEN sent[u].down_sent ELSE sent[u].up_sent
        got == IF id = 0 THEN sent[u].down_received ELSE sent[u].up_received
    IN  SubSeq(all, Len(got) + 1, Len(all))

\* the other end of the channel id names has not been dropped
IsOpen(t, id) ==
    IF id = 0 THEN channel[t].parent_end ELSE channel[thread[t].children[id]].child_end

\* C21: try_recv(id) never blocks: on a channel that is open and empty it returns at
\* once the error 'No value available' and leaves the main stack (under the id popped)
\* and the registration of the children as they were; on a channel that is not empty
\* it returns at once having pushed the oldest value not received yet.
C21_TryRecvNeverBlocks ==
    /\ [](\A t \in Interpreters :
             AtExec(t, "Prim") /\ Top(t).node.prim = "try_recv" => ENABLED ExecTryRecv(t))
    /\ [][\A t \in Interpreters : \A id \in 0..MaxChildren :
             TryRecvOn(t, id) /\ HasChannel(t, id)
             => /\ Unreceived(t, id) = <<>> /\ IsOpen(t, id)
                   => /\ res'[t] = RunError(Top(t).node.span, "No value available")
                      /\ stack'[t] = Front(stack[t])
                      /\ thread'[t] = thread[t]
                      /\ Head(ctl'[t]).k = "tail"
                /\ Unreceived(t, id) # <<>>
                   => /\ res'[t] = Ok
                      /\ stack'[t] = Append(Front(stack[t]), Head(Unreceived(t, id)))
                      /\ thread'[t] = thread[t]
                      /\ Head(ctl'[t]).k = "tail"]_vars

\* the host's interpreter has received 5 with its first try_recv, on top of the id the
\* spawn pushed, and found no value with its second: its child, still registered, had
\* not sent the 6 yet
C21_Witness ==
    \E u \in spawned :
        /\ thread[MainInterpreter].children = (1 :> u)
        /\ sent[u].up_received = <<Num(5)>>
        /\ stack[MainInterpreter] = <<Num(1), Num(5)>>
        /\ res[MainInterpreter].kind = "Run"
        /\ res[MainInterpreter].message = "No value available"

\* the step is t's recv or try_recv finding the channel of its child id closed and empty
FindsClosed(t, id) ==
    /\ \/ TryRecvOn(t, id)
       \/ At(t, "recv") /\ Top(t).ids # <<>> /\ Head(Top(t).ids) = id /\ ctl'[t] # ctl[t]
    /\ id \in DOMAIN thread[t].children
    /\ Unreceived(t, id) = <<>>
    /\ ~IsOpen(t, id)

\* t is in the wait that its recv or try_recv makes on a closed channel
InImplicitWait(t) ==
    /\ At(t, "wait")
    /\ Top(t).implicit
    /\ Top(t).handles # <<>>

\* C22: a recv or try_recv that finds the channel of child id closed and empty makes a
\* wait on that child; the wait is never blocked, because a child sends its result
\* before it drops its end of the channel; and when the child ended with an error, that
\* very error, and not 'Thread channel closed', is what the parent's call returns,
\* with the parent's stack as it was.
C22_ClosedChannelWaitsForChild ==
    /\ [][\A t \in Interpreters : \A id \in 1..MaxChildren :
             FindsClosed(t, id)
             => /\ Head(ctl'[t]) = WaitK(<<id>>, <<>>, <<>>, TRUE)
                /\ thread'[t] = thread[t]]_vars
    /\ [](\A t \in Interpreters : InImplicitWait(t) => ENABLED WaitStep(t))
    /\ [][\A t \in Interpreters : \A id \in 1..MaxChildren :
             WaitTakes(t, id) /\ Top(t).implicit
                 /\ result[thread[t].children[id]].state = "sent"
                 /\ IsErr(result[thread[t].children[id]].res)
             => /\ res'[t] = result[thread[t].children[id]].res
                /\ res'[t].message # "Thread channel closed"
                /\ stack'[t] = stack[t]
                /\ ctl'[t] = Rest(t)]_vars

\* the host's interpreter is leaving a recv on child 1, which had failed without
\* sending a value, with the error of that child
C22_Witness ==
    \E u \in spawned :
        /\ result[u].state = "taken"
        /\ IsErr(result[u].res)
        /\ res[MainInterpreter] = result[u].res
        /\ sent[MainInterpreter].waited = {1}
        /\ \E i \in DOMAIN ctl[MainInterpreter] :
               /\ ctl[MainInterpreter][i].k = "tail"
               /\ ctl[MainInterpreter][i].node.k = "Prim"
               /\ ctl[MainInterpreter][i].node.prim = "recv"

\* what the claim calls an interpreter's own state
Private(t) ==
    << stack[t], under_stack[t], fill_stack[t], unfill_stack[t], fill_boundary_stack[t],
       bindings[t], unevaluated_constants[t], output_comments[t] >>

\* the step is a step of interpreter t
StepOf(t) == ctl'[t] # ctl[t]

\* C23: while a child is registered with its parent (between the spawn and the wait),
\* a step of the child leaves the parent's main and under stacks, fill, unfill and
\* boundary stacks, bindings, deferred constants and output comments as they were,
\* and a step of the parent leaves the child's; and the interpreter a spawn builds
\* starts with empty under, fill, unfill and boundary stacks, no children and next
\* child id 1.
C23_ThreadsAreIsolated ==
    /\ [][\A p \in Interpreters : \A u \in ChildSlots(p) :
             /\ StepOf(u) /\ ~StepOf(p) => Private(p)' = Private(p)
             /\ StepOf(p) /\ ~StepOf(u) => Private(u)' = Private(u)]_vars
    /\ [][\A u \in Interpreters :
             u \notin spawned /\ u \in spawned'
             => /\ under_stack'[u] = <<>>
                /\ fill_stack'[u] = <<>>
                /\ unfill_stack'[u] = <<>>
                /\ fill_boundary_stack'[u] = <<>>
                /\ thread'[u].children = <<>>
                /\ thread'[u].next_child_id = 1]_vars

\* the host's interpreter, inside its fill, has evaluated the deferred constant 1 while
\* its second child, which started without fill and with its own next child id, has
\* values on its own under stack and the constant still unevaluated
C23_Witness ==
    \E u \in ChildSlots(MainInterpreter) :
        /\ thread[MainInterpreter].next_child_id = 3
        /\ thread[u].next_child_id = 1
        /\ fill_stack[MainInterpreter] = <<Num(2)>>
        /\ fill_stack[u] = <<>>
        /\ under_stack[MainInterpreter] = <<Num(9)>>
        /\ under_stack[u] = <<Num(9)>>
        /\ stack[u] = <<Num(8)>>
        /\ bindings[MainInterpreter][1].val # None
        /\ bindings[u][1].val = None

\* the step is exec_clean_stack going on after the node it ran has returned
CleanReturns(t) == At(t, "clean") /\ StepOf(t)

\* C24 as the spec states it: when the node run by exec_clean_stack fails, the main
\* stack and the under stack are back at the heights they had when exec_clean_stack
\* was entered; when it succeeds, neither stack is truncated.
C24_Original_ResetToEntryHeights ==
    [][\A t \in Interpreters :
          CleanReturns(t)
          => IF IsErr(res[t])
             THEN /\ Len(stack'[t]) = Len(Top(t).pre.stack)
                  /\ Len(under_stack'[t]) = Len(Top(t).pre.under)
             ELSE /\ stack'[t] = stack[t]
                  /\ under_stack'[t] = under_stack[t]]_vars

Min(a, b) == IF a <= b THEN a ELSE b

\* C24: when the node run by exec_clean_stack fails, the main stack is cut down to the
\* height it had at entry less sn.sig.args (to nothing when it was lower than that),
\* so the arguments go as well, and the under stack to its height at entry less the
\* args of the under signature; a stack is only ever cut, never refilled: an under
\* stack that is lower already stays as it is, and a main stack that is lower already
\* makes truncate_stack panic; the error returned is the node's. When the node
\* succeeds, neither stack is touched.
C24_CutToBelowTheArguments ==
    [][\A t \in Interpreters :
          CleanReturns(t)
          => LET k == Top(t)
                 below == Max0(Len(k.pre.stack) - k.sig.args)
                 under_below == Max0(Len(k.pre.under) - unwrap_or_zero(k.under_sig).args)
             IN  IF ~IsErr(res[t])
                 THEN /\ stack'[t] = stack[t]
                      /\ under_stack'[t] = under_stack[t]
                      /\ res'[t] = res[t]
                 ELSE IF Len(stack[t]) < below
                 THEN /\ res'[t].kind = "Panic"
                      /\ stack'[t] = stack[t]
                      /\ under_stack'[t] = under_stack[t]
                 ELSE /\ stack'[t] = SubSeq(stack[t], 1, below)
                      /\ under_stack'[t] =
                            SubSeq(under_stack[t], 1, Min(under_below, Len(under_stack[t])))
                      /\ res'[t] = res[t]]_vars

\* exec_clean_stack has returned the error of a node of signature |1.3 that moved its
\* argument 4 to the under stack, pushed 5 and failed: of the stack 3 4 only the 3 is
\* left, and the under stack holds the two values it held at entry
C24_Witness ==
    /\ runs = 2
    /\ ctl[MainInterpreter] = <<>>
    /\ res[MainInterpreter].kind = "Run"
    /\ stack[MainInterpreter] = <<Num(3)>>
    /\ under_stack[MainInterpreter] = <<Num(9), Num(8)>>

\* the step is exec_maintain_sig going on after the node it ran has returned
MaintainReturns(t) == At(t, "maintain") /\ StepOf(t)

\* the first n of the values seq, and default values once they are used up
Padding(seq, n) == [i \in 1..n |-> IF i <= Len(seq) THEN seq[i] ELSE DefaultValue]

\* C25: when exec_maintain_sig(sn) returns, whether the node succeeded or failed, the
\* main stack's height is its height at entry plus sn.sig.outputs less sn.sig.args and
\* the under stack's is its height at entry plus the outputs less the args of the
\* under signature (a height being at least zero); a stack that is too high loses its
\* top, one that is too low is padded with the arguments saved at entry, the deepest
\* first, the main stack before the under stack, and with default values once the
\* arguments are used up; the result of the node is returned as it is.
C25_MaintainSigKeepsHeights ==
    [][\A t \in Interpreters :
          MaintainReturns(t)
          => LET k == Top(t)
                 entry == k.pre.stack
                 target == Max0(Len(entry) + k.sig.outputs - k.sig.args)
                 under_target == Max0(Len(k.pre.under) + unwrap_or_zero(k.under_sig).outputs
                                          - unwrap_or_zero(k.under_sig).args)
                 saved == SubSeq(entry, Max0(Len(entry) - k.sig.args) + 1, Len(entry))
                 missing == Max0(target - Len(stack[t]))
                 left == SubSeq(saved, Min(missing, Len(saved)) + 1, Len(saved))
             IN  /\ Len(stack'[t]) = target
                 /\ Len(under_stack'[t]) = under_target
                 /\ stack'[t] = IF Len(stack[t]) > target THEN SubSeq(stack[t], 1, target)
                                ELSE stack[t] \o Padding(saved, missing)
                 /\ under_stack'[t] =
                       IF Len(under_stack[t]) > under_target
                       THEN SubSeq(under_stack[t], 1, under_target)
                       ELSE under_stack[t] \o Padding(left, under_target - Len(under_stack[t]))
                 /\ res'[t] = res[t]]_vars

\* exec_maintain_sig has returned the error of a node of signature |2.2 that moved its
\* arguments 3 and 4 to the under stack and failed: the stack holds 3 and 4 again, in
\* that order
C25_Witness ==
    /\ runs = 2
    /\ ctl[MainInterpreter] = <<>>
    /\ res[MainInterpreter].kind = "Run"
    /\ stack[MainInterpreter] = <<Num(3), Num(4)>>
    /\ under_stack[MainInterpreter] = <<Num(9), Num(8), Num(4), Num(3)>>

\* in interpreter t the call op(n, depth) has been made
Called(t, op) == At(t, "stack_op") /\ Top(t).op = op

\* the call has failed with the underflow error and left the stack as it was
Underflowed(t) ==
    /\ res[t].kind = "Run"
    /\ res[t].message =
          "Stack was empty when getting argument " \o ToString(Len(Top(t).pre) + 1)
    /\ stack[t] = Top(t).pre

\* C26 as the spec states it: each of the six functions, called with a count or a
\* depth larger than the height of the main stack, fails with 'Stack was empty when
\* getting argument N', N the height plus 1, and leaves the stack as it was.
C26_Original_CountOrDepthTooLarge ==
    \A t \in Interpreters : \A op \in StackOps :
        Called(t, op)
        => LET k == Top(t)
               too_large == IF op \in {"take_n", "copy_n", "prepare_fork"}
                            THEN k.n > Len(k.pre)
                            ELSE k.n > Len(k.pre) \/ k.depth > Len(k.pre)
           IN  too_large => Underflowed(t)

\* C26: take_n(n), copy_n(n) and prepare_fork(n, g) called with n larger than the
\* height of the main stack, and dup_values(n, depth), rotate_up(n, depth) and
\* rotate_down(n, depth) called with depth larger than it, fail with 'Stack was empty
\* when getting argument N', N the height plus 1, and leave the stack as it was. With
\* depth within the height, a rotation by n > depth panics and so does dup_values
\* with depth 0 and n > 0, the stack being as it was; any other call succeeds, also
\* dup_values with n larger than the height. rotate_up(n, depth) followed by
\* rotate_down(n, depth) restores the stack whenever n <= depth <= height.
C26_UnderflowLeavesStack ==
    \A t \in Interpreters : \A op \in StackOps :
        Called(t, op)
        => LET k == Top(t)
               needed == IF op \in {"take_n", "copy_n", "prepare_fork"} THEN k.n ELSE k.depth
               rotation == op \in {"rotate_up", "rotate_down"}
           IN  IF needed > Len(k.pre) THEN Underflowed(t)
               ELSE IF \/ rotation /\ k.n > k.depth
                       \/ op = "dup_values" /\ k.depth = 0 /\ k.n > 0
               THEN res[t].kind = "Panic" /\ stack[t] = k.pre
               ELSE /\ res[t] = Ok
                    /\ k.first # None => stack[t] = k.first[1]

\* rotate_up(1, 3) has turned the stack 1 'a' [1 2] into [1 2] 1 'a', and the
\* rotate_down(1, 3) after it has returned with the stack 1 'a' [1 2] again
C26_Witness ==
    /\ Called(MainInterpreter, "rotate_down")
    /\ Top(MainInterpreter).n = 1
    /\ Top(MainInterpreter).depth = 3
    /\ Top(MainInterpreter).first = Some(<<Num(1), Chr("a"), ArrOf(0, <<Num(1), Num(2)>>)>>)
    /\ Top(MainInterpreter).pre = <<ArrOf(0, <<Num(1), Num(2)>>), Num(1), Chr("a")>>
    /\ stack[MainInterpreter] = <<Num(1), Chr("a"), ArrOf(0, <<Num(1), Num(2)>>)>>
    /\ res[MainInterpreter] = Ok

\* the definition whose function the host called last
CalledDef(t) == compiler.compiled[Top(t).def]

\* New of a definition returned Ok: the host has not called a getter yet
NewReturned(t) == At(t, "data_call") /\ Top(t).made = None /\ res[t] = Ok

\* the getter of some field was called on the instance a call of New had left
GetterCalled(t) == At(t, "data_call") /\ Top(t).made # None

\* the value of field i (from 1) of def when New is called on the stack pre: the
\* first field takes the topmost arguments, and a field with an initializer is what
\* the initializer makes of its arguments
SuppliedValue(def, i, pre) ==
    LET before == SumArgs(SubSeq(def.fields, 1, i - 1))
        args == field_args(def.fields[i])
        supplied == SubSeq(pre, Len(pre) - before - args + 1, Len(pre) - before)
    IN  IF def.fields[i].init = None THEN supplied[1]
        ELSE Last(ExecData(def.fields[i].init[1].node, supplied).stack)

\* C27: when New returned Ok, the instance of a definition that is no variant has one
\* row per field, and row i is the value supplied or initialised for field i (boxed
\* and labelled with the field's name in a boxed definition); and the getter of
\* field i, called on the instance New left, returns Ok with that value on top of
\* the stack, the rest of the stack as New left it.
C27_GetterReturnsField ==
    \A t \in Interpreters :
        /\ NewReturned(t) /\ ~CalledDef(t).data.variant /\ CalledDef(t).data.fields # None =>
              LET def == CalledDef(t)
                  instance == Last(stack[t])
              IN  /\ Len(instance.rows) = Len(def.fields)
                  /\ \A i \in 1..Len(def.fields) :
                        instance.rows[i] =
                            IF def.boxed
                            THEN BoxOf(set_label(SuppliedValue(def, i, Top(t).pre),
                                                 def.fields[i].name))
                            ELSE SuppliedValue(def, i, Top(t).pre)
        /\ GetterCalled(t) =>
              /\ res[t] = Ok
              /\ Last(stack[t]) = SuppliedValue(CalledDef(t), Top(t).field, Top(t).made[1].pre)
              /\ Front(stack[t]) = Front(Top(t).pre)

\* New was called with a number on top of a character and a character below: the
\* first field took the number, the second field's initializer the two below, and
\* the getter of the second field returned what the initializer made
C27_Witness ==
    /\ GetterCalled(MainInterpreter)
    /\ Top(MainInterpreter).field = 2
    /\ Top(MainInterpreter).made[1].pre = <<Chr("a"), Num(1), Chr("a"), Num(1)>>
          \/ Top(MainInterpreter).made[1].pre = <<Chr("a"), Chr("a"), Num(1)>>
    /\ CalledDef(MainInterpreter).boxed
    /\ CalledDef(MainInterpreter).data.variant
    /\ CalledDef(MainInterpreter).fields[1].init = None
    /\ CalledDef(MainInterpreter).fields[2].init # None
    /\ field_args(CalledDef(MainInterpreter).fields[2]) = MaxN
    /\ res[MainInterpreter] = Ok
    /\ Len(Last(stack[MainInterpreter]).rows) = MaxN

\* New of some definition was called
NewCalled(t) == At(t, "data_call") /\ Top(t).made = None

\* the arguments the fields of a definition take: those of the initializer, or one
DeclaredArgs(data) ==
    IF data.fields = None THEN 0
    ELSE LET list == data.fields[1].fields
         IN  Cardinality({<<i, a>> \in (1..Len(list)) \X (1..MaxHeight) :
                            a <= (IF list[i].init # None THEN list[i].init[1] ELSE 1)})

\* C28: New is registered with the signature (total_args, 1), total_args the sum over
\* the fields of the initializer's arguments or 1; a call of New never trips the drift
\* check, and when it returns Ok it has taken total_args values and left one, for
\* variants and other definitions, with and without a field list.
C28_NewKeepsItsSignature ==
    \A t \in Interpreters :
        NewCalled(t) =>
            LET def == CalledDef(t)
                sig == compiler.functions[def.new].sig
            IN  /\ sig = Sig(DeclaredArgs(def.data), 1)
                /\ ~Top(t).drift
                /\ res[t] = Ok =>
                      /\ Len(stack[t]) = Len(Top(t).pre) - sig.args + 1
                      /\ Front(stack[t]) = Truncate(Top(t).pre, Len(Top(t).pre) - sig.args)

\* whether a declared field has an initializer, a validator alone counting as one
HasInitializer(f) == f.init # None \/ f.validator

\* the declared fields of a definition
Declared(data) == IF data.fields = None THEN <<>> ELSE data.fields[1].fields

\* the positions (from 1) of the declared fields without an initializer
Lacking(data) == {j \in 1..Len(Declared(data)) : ~HasInitializer(Declared(data)[j])}

\* C29: data_def returns, and it binds SoA exactly when the definition is boxed and
\* some field has no initializer (a validator alone counting as one); the SoA function
\* is TrackCaller of the call of New followed by NormalizeSoA, whose len_index is the
\* index of the first field without initializer and whose mask has bit i set exactly
\* when field i has an initializer; SoA has the signature of New.
C29_SoAMaskMarksInitializers ==
    /\ compiler.failed = None
    /\ \A d \in 1..Len(compiler.compiled) :
          LET def == compiler.compiled[d]
              data == def.data
              boxed == data.fields # None /\ data.fields[1].boxed
          IN  /\ def.soa # None <=> boxed /\ Lacking(data) # {}
              /\ (\E b \in 1..Len(compiler.bindings) : compiler.bindings[b].name = "SoA")
                    <=> def.soa # None
              /\ def.soa # None =>
                    LET soa == compiler.functions[def.soa[1]]
                        new == compiler.functions[def.new]
                        normalize == soa.node.inner.nodes[2]
                    IN  /\ soa.id = "SoA"
                        /\ soa.node.k = "TrackCaller"
                        /\ soa.node.inner.nodes[1] = Call(Function("New", new.sig, def.new), DefSpan)
                        /\ Len(soa.node.inner.nodes) = 2
                        /\ normalize.k = "NormalizeSoA"
                        /\ \A j \in Lacking(data) : normalize.len_index + 1 <= j
                        /\ normalize.len_index + 1 \in Lacking(data)
                        /\ \A j \in 1..Len(Declared(data)) :
                              (j - 1) \in normalize.mask <=> HasInitializer(Declared(data)[j])
                        /\ soa.sig = new.sig

\* the variants compiled before definition d (an index into compiler.compiled) that
\* were written in the scope of id home
VariantsBefore(d, home) ==
    {e \in 1..(d - 1) : compiler.compiled[e].data.variant /\ compiler.compiled[e].home = home}

\* the node of New of def pushes the variant index at this place
TagPlace(def) == IF def.data.fields # None THEN 2 ELSE 1

C31_SecondUnnamedFailsFirst ==
    [][\A data \in ScopeDefs :
          (/\ data.name = ""
           /\ compiler.scope.data_def
           /\ compiler.failed = None
           /\ compiler' = data_def(compiler, data, TRUE, debug_assertions))
          => /\ compiler'.failed
                   = Some("A module cannot have multiple unnamed data definitions")
             /\ compiler' = [compiler EXCEPT !.failed = compiler'.failed]
             /\ compiler'.defs = compiler.defs
             /\ compiler'.next_global = compiler.next_global
             /\ compiler'.spans = compiler.spans
             /\ compiler'.bindings = compiler.bindings
             /\ compiler'.functions = compiler.functions]_vars

\* the second unnamed definition of a module was refused: the module holds the
\* definition compiled first and nothing more
C31_Witness ==
    /\ compiler.failed = Some("A module cannot have multiple unnamed data definitions")
    /\ compiler.scope.kind = "Module"
    /\ compiler.scope.data_def
    /\ Len(compiler.compiled) = 1
    /\ compiler.compiled[1].data.name = ""
    /\ compiler.defs = 1
    /\ compiler.spans = Len(compiler.compiled[1].fields) + 1

RECURSIVE Numeral(_)
\* the decimal numeral of k >= 1 in subscript digits, most significant digit first
Numeral(k) ==
    IF k < 10 THEN <<SUBSCRIPT_DIGITS[k + 1]>>
    ELSE Numeral(k \div 10) \o <<SUBSCRIPT_DIGITS[(k % 10) + 1]>>

RECURSIVE Occurrences(_, _, _)
\* the name followed by the numeral of k, for k = from..n
Occurrences(name, from, n) ==
    IF from > n THEN <<>>
    ELSE <<" ", name>> \o Numeral(from) \o Occurrences(name, from + 1, n)

\* the arguments the written field f takes in New: None when it has no initializer
Listing(f, name) ==
    IF f.init = None THEN <<" ", name>>
    ELSE IF f.init[1] = 0 THEN <<>>
    ELSE IF f.init[1] = 1 THEN <<" ", name>>
    ELSE Occurrences(name, 1, f.init[1])

RECURSIVE Listings(_, _)
Listings(written, i) ==
    IF i > Len(written) THEN <<>>
    ELSE Listing(written[i], written[i].name) \o Listings(written, i + 1)

\* the part of the comment of New after its heading
ListedArgs(def) == SubSeq(def.comment, 6, Len(def.comment))

\* C32: in the doc comment of New a field whose initializer takes n >= 2
\* arguments is listed n times, occurrence k followed by the decimal numeral of
\* k in subscript digits, most significant digit first, also for k >= 10; a
\* field without initializer or with a 1-argument initializer is listed once
\* without subscript, a field with a 0-argument initializer is not listed.
C32_SubscriptsAreNumerals ==
    \A d \in 1..Len(compiler.compiled) :
        LET def == compiler.compiled[d]
        IN  def.data \in DocDefs
              => ListedArgs(def) = Listings(def.data.fields[1].fields, 1)

\* the same for initializers of fewer than ten arguments
C32_BelowTen ==
    \A d \in 1..Len(compiler.compiled) :
        LET def == compiler.compiled[d]
        IN  (/\ def.data \in DocDefs
             /\ \A i \in 1..Len(def.fields) : field_args(def.fields[i]) < 10)
              => ListedArgs(def) = Listings(def.data.fields[1].fields, 1)

\* a definition with a field of ten or more arguments was compiled
C32_Witness ==
    /\ Len(compiler.compiled) = 1
    /\ compiler.compiled[1].data \in DocDefs
    /\ \E i \in 1..Len(compiler.compiled[1].fields) :
          field_args(compiler.compiled[1].fields[i]) >= 10

\* the node that interpreter t leaves in this step has failed with an error of its own
FailsItself(t) ==
    \/ At(t, "tail") /\ res[t].kind = "Run"
    \/ Top(t).k = "exec" /\ res'[t].kind = "Run"

\* the error the limits ask for: Timeout before Interrupted
LimitError(t) == IF TimeIsUp(t) THEN TimeoutError(span_index(t)) ELSE InterruptedError

\* C33: if a node executed by exec_impl fails with its own error and, when it
\* finishes, the execution limit is exceeded or the interrupt hook returns true,
\* exec returns Timeout or Interrupted and the node's own error is discarded;
\* Timeout is returned in preference to Interrupted when both hold.
C33_LimitErrorReplacesOwnError ==
    [][\A t \in Interpreters :
          (/\ ExitsNode(t)
           /\ FailsItself(t)
           /\ TimeIsUp(t) \/ HookSaysStop(t))
              => res'[t] = LimitError(t)]_vars

\* what the code keeps of C33: the error of a node that gets past the match of
\* exec_impl is replaced
C33_ReplacedAfterMatch ==
    [][\A t \in Interpreters :
          (/\ ExitsNode(t)
           /\ At(t, "tail")
           /\ res[t].kind = "Run"
           /\ TimeIsUp(t) \/ HookSaysStop(t))
              => res'[t] = LimitError(t)]_vars

\* a node has failed past the match while both limits were reached
C33_OwnErrorAtTail ==
    \E t \in Interpreters :
        /\ At(t, "tail")
        /\ res[t].kind = "Run"
        /\ HookSaysStop(t)
        /\ TimeIsUp(t)

\* Call(f, span) has returned in interpreter t
CallOfReturned(t, f) ==
    /\ Returning(t)
    /\ Top(t).node.k = "Call"
    /\ Top(t).node.f = f

\* C34: the track_caller flag of a frame, once set by a TrackCaller node, is never
\* cleared while the frame lives: when TrackCaller(inner) succeeds and a later
\* sibling in the same frame fails, the error gets the caller's span and no
\* TraceFrame for the frame; a TrackCaller executed in a callee never sets the
\* flag of the caller's frame.
C34_TrackCallerSticksToItsFrame ==
    /\ [][\A t \in Interpreters :
            \A i \in 1..Len(call_stack[t]) :
                (i <= Len(call_stack'[t]) /\ call_stack[t][i].track_caller)
                    => call_stack'[t][i].track_caller]_vars
    /\ [][\A t \in Interpreters :
            (AtExec(t, "TrackCaller") /\ ctl'[t] # ctl[t])
                => /\ Len(call_stack'[t]) = Len(call_stack[t])
                   /\ Last(call_stack'[t]).track_caller
                   /\ \A i \in 1..(Len(call_stack[t]) - 1) :
                         call_stack'[t][i] = call_stack[t][i]]_vars
    /\ [](\A t \in Interpreters :
            /\ CallOfReturned(t, FTrackThenFail)
                  => /\ IsErr(res[t])
                     /\ res[t].caller = Some(Top(t).node.span)
                     /\ res[t].trace = <<>>
            /\ CallOfReturned(t, FCallsTrackOk)
                  => /\ IsErr(res[t])
                     /\ res[t].caller = None
                     /\ res[t].trace = <<TraceFrame(Some(FCallsTrackOk.id), Top(t).node.span)>>)

\* a function whose TrackCaller succeeded and whose next node failed has returned,
\* and so has a function that failed after its callee executed a TrackCaller
C34_Witness ==
    \E t \in Interpreters :
        /\ CallOfReturned(t, FTrackThenFail)
        /\ IsErr(res[t])
        /\ res[t].caller = Some(10)
        /\ res[t].trace = <<>>
        /\ Len(stack[t]) = Len(Top(t).pre.stack) + 1

C34_WitnessCallee ==
    \E t \in Interpreters :
        /\ CallOfReturned(t, FCallsTrackOk)
        /\ res[t].trace = <<TraceFrame(Some(FCallsTrackOk.id), 10)>>

UnboundConstant(t) ==
    error(t, "Called unbound constant. This is a bug in the interpreter.")

\* binding i of interpreter t is Const(None), no node is deferred for it and none is
\* being evaluated for it
LostConstant(t, i) ==
    /\ bindings[t][i] = ConstBinding(None)
    /\ i \notin DOMAIN unevaluated_constants[t]
    /\ \A j \in 1..Len(ctl[t]) : ctl[t][j] # ConstK(i)

\* C35: if the node of a deferred constant fails when CallGlobal(i) evaluates it,
\* its entry is already removed from unevaluated_constants and binding i stays
\* Const(None), so every later CallGlobal(i) on that interpreter fails with
\* 'Called unbound constant' and the node is never executed again; a spawned
\* child starts with an empty deferred-constant table and always gets that
\* error for a constant that is still deferred.
C35_FailedConstantIsLost ==
    /\ [][\A t \in Interpreters :
            (At(t, "const") /\ IsErr(res[t]) /\ ctl'[t] # ctl[t])
                => /\ bindings'[t][Top(t).index] = ConstBinding(None)
                   /\ Top(t).index \notin DOMAIN unevaluated_constants'[t]
                   /\ res'[t] = res[t]]_vars
    /\ [][\A t \in spawned \cup {MainInterpreter} : \A i \in DOMAIN InitUnevaluated :
            LostConstant(t, i) => LostConstant(t, i)' /\ evals'[t][i] = evals[t][i]]_vars
    /\ [][\A u \in spawned' \ spawned :
            /\ unevaluated_constants'[u] = <<>>
            /\ \E t \in Interpreters : AtExec(t, "Spawn") /\ bindings'[u] = bindings[t]]_vars
    /\ [](\A t \in Interpreters :
            /\ t \in spawned => unevaluated_constants[t] = <<>>
            /\ (DeferredReturned(t) /\ Top(t).pre.binding = ConstBinding(None)
                   /\ (Top(t).pre.evaluated = 1 \/ t \in spawned))
                  => /\ res[t] = UnboundConstant(t)
                     /\ stack[t] = Top(t).pre.stack
                     /\ evals[t][Top(t).node.index] = Top(t).pre.evaluated)

\* the host has called a deferred constant whose node had failed in an earlier exec
C35_Witness ==
    /\ DeferredReturned(MainInterpreter)
    /\ runs = 2
    /\ Top(MainInterpreter).node = CallGlobal(2)
    /\ Top(MainInterpreter).pre.evaluated = 1
    /\ res[MainInterpreter] = UnboundConstant(MainInterpreter)

\* a child has called a constant that its parent has not evaluated yet
C35_WitnessChild ==
    \E u \in spawned :
        /\ DeferredReturned(u)
        /\ 1 \in DOMAIN unevaluated_constants[MainInterpreter]
        /\ Top(u).node = CallGlobal(1)
        /\ res[u] = UnboundConstant(u)

\* recv or try_recv has returned in interpreter t
ReceiveReturned(t) ==
    /\ Returning(t)
    /\ Top(t).node.k = "Prim"
    /\ Top(t).node.prim \in {"recv", "try_recv"}

\* C36: when recv(id) or try_recv(id) finds the channel of a child closed and the
\* child finished successfully, the call returns 'Thread channel closed' although
\* the implicit wait has appended the child's final stack to the parent's main
\* stack and removed the child's registration; with id 0 and a closed parent
\* channel the error is 'Invalid thread id'.
C36_ClosedAfterSuccessfulChild ==
    /\ [][\A t \in Interpreters : \A id \in 1..MaxChildren :
            (/\ WaitTakes(t, id)
             /\ Top(t).implicit
             /\ result[thread[t].children[id]].state = "sent"
             /\ ~IsErr(result[thread[t].children[id]].res))
                => /\ stack'[t] = stack[t] \o result[thread[t].children[id]].stack
                   /\ id \notin DOMAIN thread'[t].children
                   /\ ctl'[t] = <<WaitK(<<>>, <<>>, <<>>, TRUE)>> \o Rest(t)]_vars
    /\ [][\A t \in Interpreters :
            (At(t, "wait") /\ Top(t).implicit /\ ctl'[t] # ctl[t])
                => IF Top(t).handles = <<>>
                   THEN /\ res'[t] = error(t, "Thread channel closed")
                        /\ stack'[t] = stack[t]
                        /\ thread'[t] = thread[t]
                   ELSE Top(t).handles = <<0>>
                        => /\ res'[t] = error(t, "Invalid thread id")
                           /\ stack'[t] = stack[t]
                           /\ thread'[t] = thread[t]
                           /\ ctl'[t] = Rest(t)]_vars
    /\ [][\A t \in Interpreters :
            (/\ TryRecvOn(t, 0) \/ (At(t, "recv") /\ Top(t).ids # <<>>
                                       /\ Head(Top(t).ids) = 0 /\ ctl'[t] # ctl[t])
             /\ thread[t].parent
             /\ channel[t].down = <<>>
             /\ ~channel[t].parent_end)
                => Head(ctl'[t]) = WaitK(<<0>>, <<>>, <<>>, TRUE)]_vars
    /\ [](\A t \in Interpreters :
            (ReceiveReturned(t) /\ res[t].message = "Thread channel closed")
                => \E id \in DOMAIN Top(t).pre.children :
                      LET u == Top(t).pre.children[id]
                      IN  /\ Last(Top(t).pre.stack) = Num(id)
                          /\ id \notin DOMAIN thread[t].children
                          /\ result[u].state = "taken"
                          /\ result[u].res = Ok
                          /\ stack[t] = Front(Top(t).pre.stack) \o result[u].stack)

\* try_recv(1) has returned 'Thread channel closed' and the two values the child
\* left are on the parent's stack
C36_Witness ==
    /\ ReceiveReturned(MainInterpreter)
    /\ Top(MainInterpreter).node.prim = "try_recv"
    /\ res[MainInterpreter].message = "Thread channel closed"
    /\ thread[MainInterpreter].children = <<>>
    /\ Len(stack[MainInterpreter]) = Len(Top(MainInterpreter).pre.stack) + 1
    /\ Last(stack[MainInterpreter]) = Num(8)

\* a child's recv(0) has returned 'Invalid thread id' after its parent was reset
C36_WitnessParent ==
    \E u \in spawned :
        /\ ReceiveReturned(u)
        /\ Top(u).pre.stack = <<Num(0)>>
        /\ ~channel[u].parent_end
        /\ res[u].message = "Invalid thread id"

\* C37: after run_asm returns an error, the settings that are not preserved are
\* back at their defaults: recursion_limit is the default of the build even if
\* with_recursion_limit had set another value, the interrupt hook is None, the CLI
\* arguments and the file path are empty, the next child id is 1 and the table of
\* deferred constants and the test results are empty.
C37_SettingsBackAtDefaults ==
    [][\A t \in Interpreters :
          (RunAsmReturns(t) /\ IsErr(res'[t]))
              => /\ recursion_limit'[t] = IF debug_assertions THEN DebugRecursionLimit
                                                              ELSE ReleaseRecursionLimit
                 /\ interrupted'[t] = None
                 /\ cli_arguments'[t] = <<>>
                 /\ cli_file_path'[t] = ""
                 /\ thread'[t].next_child_id = 1
                 /\ thread'[t] = ThisThreadDefault
                 /\ unevaluated_constants'[t] = <<>>
                 /\ test_results'[t] = <<>>
                 /\ execution_start'[t] = 0]_vars

\* the interpreter was built with a recursion limit of 7, an interrupt hook,
\* arguments and a file path; its run_asm has spawned a child, recorded a test
\* assertion and failed
C37_Witness ==
    /\ runs = 1
    /\ ctl[MainInterpreter] = <<>>
    /\ IsErr(res[MainInterpreter])
    /\ execution_limit[MainInterpreter] = Some(1)
    /\ recursion_limit[MainInterpreter] # 7
    /\ interrupted[MainInterpreter] = None
    /\ cli_arguments[MainInterpreter] = <<>>
    /\ sent[MainInterpreter].ids = <<1>>
    /\ thread[MainInterpreter].next_child_id = 1
    /\ reports[MainInterpreter] # <<>>
    /\ \E u \in spawned : cli_arguments[u] = <<"arg">> /\ recursion_limit[u] = 7

\* C38: call_stack is never empty, and after exec of any node returns, with Ok or
\* with any error including Timeout and Interrupted, call_stack has the length it
\* had before the node, the spans list of its top frame has the length it had,
\* and array_depth has the value it had.
C38_FramesSpansAndDepthBalance ==
    /\ [](\A t \in Interpreters : call_stack[t] # <<>>)
    /\ [](\A t \in Interpreters :
            Returning(t)
                => /\ Len(call_stack[t]) = Top(t).pre.frames
                   /\ Len(Last(call_stack[t]).spans) = Top(t).pre.spans
                   /\ array_depth[t] = Top(t).pre.depth)
    /\ [][\A t \in Interpreters :
            ExitsNode(t)
                => /\ Len(call_stack'[t]) = Len(call_stack[t])
                   /\ Len(Last(call_stack'[t]).spans) = Len(Last(call_stack[t]).spans)
                   /\ array_depth'[t] = array_depth[t]
                   /\ res'[t].kind \in {"Ok", "Run", "Timeout", "Interrupted"}]_vars

\* an array inside a with_fill, whose inner node called a function, is returning
\* with Timeout: a frame, a second span and a level of array depth were there
\* meanwhile
C38_Witness ==
    \E t \in Interpreters :
        /\ Returning(t)
        /\ Top(t).node.k = "Array"
        /\ Top(t).node.inner.k = "Call"
        /\ fill_stack[t] # <<>>
        /\ Top(t).pre.spans = 1
        /\ Top(t).pre.frames = 1
        /\ res[t].kind = "Timeout"
        /\ array_depth[t] = 0

\* the fill contexts of interpreter t are well formed: every boundary lies inside the
\* two fill stacks and no boundary is below the one under it
BoundariesInRange(t) ==
    \A i \in 1..Len(fill_boundary_stack[t]) :
        /\ fill_boundary_stack[t][i][1] <= Len(fill_stack[t])
        /\ fill_boundary_stack[t][i][2] <= Len(unfill_stack[t])
        /\ i > 1 => /\ fill_boundary_stack[t][i - 1][1] <= fill_boundary_stack[t][i][1]
                    /\ fill_boundary_stack[t][i - 1][2] <= fill_boundary_stack[t][i][2]

\* C39: in every reachable state each entry (f, u) of fill_boundary_stack has
\* f <= length of fill_stack and u <= length of unfill_stack, and the entries do not
\* decrease from bottom to top; and when with_fill, with_unfill, without_fill,
\* without_fill_but or without_unfill_but returns, with Ok or with an error, the three
\* stacks have the lengths they had on entry.
C39_FillScopesBalance ==
    \A t \in Interpreters :
        /\ BoundariesInRange(t)
        /\ Returning(t) /\ Top(t).node.k \in {"Mod", "ModBut"}
               => /\ Len(fill_stack[t]) = Top(t).pre.fills
                  /\ Len(unfill_stack[t]) = Top(t).pre.unfills
                  /\ Len(fill_boundary_stack[t]) = Top(t).pre.boundaries

\* two boundaries are open, the upper one above the lower, inside a with_fill and a
\* with_unfill
C39_Witness ==
    \E t \in Interpreters :
        /\ Len(fill_boundary_stack[t]) = 2
        /\ fill_boundary_stack[t][1] = <<1, 0>>
        /\ fill_boundary_stack[t][2] = <<1, 1>>

\* without_fill_but or without_unfill_but is returning an error inside a with_fill
C39_WitnessFailed ==
    \E t \in Interpreters :
        /\ Returning(t)
        /\ Top(t).node.k = "ModBut"
        /\ IsErr(res[t])
        /\ Top(t).pre.fills = 1
        /\ Top(t).pre.boundaries = 0

\* interpreter t is returning from Array{Static(n), boxed} then Unpack{n, unbox = boxed},
\* begun on a stack of at least n values, n >= 1
RoundTripReturned(t) ==
    /\ Returning(t)
    /\ Top(t).node \in RoundTripPrograms
    /\ Len(Top(t).pre.stack) >= Top(t).node.nodes[1].len.len

\* the n values the array of the round trip was built from, top of the stack first
RoundTripRows(t) ==
    LET before == Top(t).pre.stack
        n == Top(t).node.nodes[1].len.len
    IN  Reverse(SubSeq(before, Len(before) - n + 1, Len(before)))

\* C40 as stated: for every n >= 1 and every main stack of height at least n,
\* Array{len: Static(n), boxed: false} over an empty node followed by
\* Unpack{count: n, unbox: false} restores the main stack exactly, and so does
\* boxed: true followed by unbox: true.
C40_Original_RoundTripRestores ==
    \A t \in Interpreters :
        RoundTripReturned(t) => res[t] = Ok /\ stack[t] = Top(t).pre.stack

\* C40 amended: with boxed: true and unbox: true the round trip restores every stack
\* of height at least n; with boxed: false and unbox: false it restores the stack when
\* its top n values agree in type and shape, and otherwise the Array fails and the n
\* values are gone from the stack.
C40_RoundTripRestoresAgreeingRows ==
    \A t \in Interpreters :
        RoundTripReturned(t)
            => IF Top(t).node.nodes[1].boxed \/ RowsAgree(RoundTripRows(t))
               THEN res[t] = Ok /\ stack[t] = Top(t).pre.stack
               ELSE /\ res[t].kind = "Run"
                    /\ stack[t] = SubSeq(Top(t).pre.stack, 1,
                                         Len(Top(t).pre.stack) - Top(t).node.nodes[1].len.len)

\* a stack of a number, a box and an array has been boxed into one array of three rows
\* and unpacked again
C40_Witness ==
    \E t \in Interpreters :
        /\ RoundTripReturned(t)
        /\ Top(t).node = RoundTrip(3, TRUE, TRUE)
        /\ stack[t] = <<Num(1), BoxOf(Num(1)), ArrOf(0, <<Num(1), Num(2)>>)>>
        /\ res[t] = Ok

\* two arrays of the same type and shape under a number have been made the rows of
\* one array and unpacked again
C40_WitnessUnboxed ==
    \E t \in Interpreters :
        /\ RoundTripReturned(t)
        /\ Top(t).node = RoundTrip(2, FALSE, FALSE)
        /\ stack[t] = <<Num(1), ArrOf(0, <<Num(1), Num(2)>>), ArrOf(0, <<Num(1), Num(2)>>)>>
        /\ res[t] = Ok

\* a number and a character could not be made the rows of one array
C40_WitnessDisagree ==
    \E t \in Interpreters :
        /\ RoundTripReturned(t)
        /\ Top(t).pre.stack = <<Num(1), Chr("a")>>
        /\ stack[t] = <<>>
        /\ res[t].kind = "Run"

====
